---- MODULE Spec2Model ----
(***************************************************************************)
(* Model of the asynchronous job layer and the session pipeline of the     *)
(* report server: the job store (src/api/job_storage.py), the job handlers *)
(* and endpoints (src/api/main.py), the pipeline stages                    *)
(* (src/core/nodes/*.py), section generation and refinement                *)
(* (src/core/generate_section.py, src/core/refine_section.py) and the fact *)
(* merge (_dedupe_merge).                                                  *)
(***************************************************************************)
EXTENDS Integers, Sequences, FiniteSets, TLC

\* ------------------------------------------------------------------ bounds
MaxJobs == 2
MaxFacts == 2
MaxLen == 3
MaxPolls == 1
MaxTicks == 3
MaxChunks == 2

\* --------------------------------------------------------------- constants
\* Optional values (Python None / a value) are sequences of length 0 or 1.
None == <<>>
Some(x) == <<x>>

JobIds == 1..MaxJobs
Sessions == {"s1"}
Backends == {"memory", "redis"}

PENDING == "pending"
PROCESSING == "processing"
COMPLETED == "completed"
FAILED == "failed"
JobStatus == {PENDING, PROCESSING, COMPLETED, FAILED}

JOB_TYPE_GENERATE == "generate"
JOB_TYPE_REFINE == "refine"
ERR_INTERNAL_ERROR == "INTERNAL_ERROR"

\* Messages of the exceptions the handlers turn into error descriptors.
MsgContextRequired == "Context must be extracted before section generation."
MsgSessionNotInit == "Session not initialized"
MsgInvalidBase64 == "Invalid base64 in original_text"
MsgEmptyText == "LLM returned empty text response"
MsgSupabase == "Supabase error"
MsgTranscriptsNotLoaded == "Transcripts must be loaded before extracting facts."
MsgValidation == "validation error for SectionRef: md_path field required"
MsgFileNotFound == "No such file or directory"
MsgExtraction == "ExtractionError"
MsgStore == "redis.exceptions.ConnectionError"

\* Texts the provider may return (generate_text strips and rejects empty text).
ProviderTexts == {"t1", "t2"}
\* Section titles a request may carry, and the documents of the opportunity.
SectionTitles == {"Executive Summary"}
Docs == {"call"}

\* ------------------------------------------------------------------- state
VARIABLES
    backend,    \* which JobStorage get_job_storage() built
    store,      \* job_id -> None | Some(job record): the backend's records
    nJobs,      \* number of jobs created so far (ids are fresh uuid4 values)
    job,        \* job_id -> None | Some(job record): the handler's Job object
    pc,         \* job_id -> position of the job's handler
    wk,         \* job_id -> the handler's worker-thread locals
    calls,      \* job_id -> provider / fetch calls made on the job's behalf
    cp,         \* session_id -> None | Some(SessionState): latest checkpoint
    files,      \* paths that exist under .temp
    heap,       \* fact objects of the merge under test (object id -> dict)
    existing,   \* _dedupe_merge argument: sequence of object ids
    new,        \* _dedupe_merge argument: sequence of object ids
    mstep,      \* how many times the merge has been applied
    merged1,    \* result of the first merge: ids and a snapshot of their values
    merged2,    \* result of the second merge
    heap0,      \* the fact objects as they were given (before any merge)
    pstep,      \* whether the merge of the reordered batch has been applied
    mergedP,    \* result of merging the batch in another arrival order
    polls,      \* status queries served so far
    clock,      \* seconds elapsed (time.time() and the Redis server's clock)
    ticks,      \* how many times the clock has advanced
    expires,    \* job_id -> None | Some(time): expiry Redis holds for the key
    written,    \* job_id -> None | Some(time) of the last create/update call
                \* on the id not followed by a delete call
    twin,       \* the records of the other backend, given the same calls
    foreign,    \* whether a value not written by update_job was put under a key
    ret,        \* what the last store call returned
    retTwin,    \* what the same call returned on the other backend
    listing     \* the opportunity's files as the loading stage under test will
                \* find them: whether the query works, and per file whether its
                \* download and its text extraction work

jobVars == <<backend, store, nJobs, job, pc, wk, calls, cp, files>>
mergeVars == <<heap, existing, new, mstep, merged1, merged2, heap0, pstep, mergedP>>
apiVars == <<polls, clock, ticks, expires, written, twin, foreign, ret, retTwin>>
vars == <<backend, store, nJobs, job, pc, wk, calls, cp, files,
          heap, existing, new, mstep, merged1, merged2, heap0, pstep, mergedP,
          polls, clock, ticks, expires, written, twin, foreign, ret, retTwin,
          listing>>

\* ------------------------------------------------------- Job and job store
ErrorDescriptor(msg) == [error_code |-> ERR_INTERNAL_ERROR, message |-> msg]

\* A constructor that starts the job in PROCESSING.
NewJobProcessing(job_type, metadata) ==
    [job_type |-> job_type, status |-> PROCESSING, result |-> None, error |-> None,
     metadata |-> metadata]

\* Job.__init__ as create_job calls it: PENDING, no result, no error.
NewJob(job_type, metadata) ==
    [job_type |-> job_type, status |-> PENDING, result |-> None, error |-> None,
     metadata |-> metadata]

\* Job.update_status: result and error are only ever set, never cleared.
UpdateStatus(jb, status, result, error) ==
    [jb EXCEPT !.status = status,
               !.result = IF result # None THEN result ELSE @,
               !.error = IF error # None THEN error ELSE @]

\* InMemoryJobStorage keeps the Job object itself: while the id is in _jobs the
\* stored record is the very object the handler mutates.
Alias(st, id, jb) ==
    IF backend = "memory" /\ st[id] # None THEN [st EXCEPT ![id] = Some(jb)] ELSE st

CreateJob(st, id, job_type, metadata) ==
    [st EXCEPT ![id] = Some(NewJob(job_type, metadata))]

\* Values a Redis key can hold that update_job did not write: text that is not
\* JSON, an object without its "status" key, an object whose status is not a
\* JobStatus value, JSON that is not an object (null, a list, a string).
RawKinds == {"not json", "no status field", "unknown status", "not an object"}
Raw(kind) == [raw |-> kind]
IsRaw(v) == "raw" \in DOMAIN v

\* get_job: the dict lookup; on Redis GET, json.loads and Job(...), where
\* JSONDecodeError, KeyError and ValueError give None and any other exception
\* (the TypeError of subscripting a non-object) leaves the function.
GetJob(st, id) == IF st[id] # None /\ IsRaw(st[id][1]) THEN None ELSE st[id]
GetJobRaises(st, id) ==
    st[id] # None /\ IsRaw(st[id][1]) /\ st[id][1].raw = "not an object"

\* update_job: in memory only an id still present is written; Redis SETs the key
\* whether or not it exists.
UpdateJobOn(b, st, id, jb) ==
    IF b = "memory"
    THEN IF st[id] # None THEN [st EXCEPT ![id] = Some(jb)] ELSE st
    ELSE [st EXCEPT ![id] = Some(jb)]
UpdateJob(st, id, jb) == UpdateJobOn(backend, st, id, jb)

DeleteJob(st, id) == [st EXCEPT ![id] = None]

\* What a store call can do: the in-memory backend never raises; a Redis call
\* can raise with the command not applied ("lost") or applied ("late").
WriteOutcomes == IF backend = "memory" THEN {"ok"} ELSE {"ok", "lost", "late"}
ReadOutcomes == IF backend = "memory" THEN {"ok"} ELSE {"ok", "raise"}

Write(st, id, jb, o) == IF o = "lost" THEN st ELSE UpdateJob(st, id, jb)

\* ------------------------------------------------------------ conversions
\* base64 of a text, and the decoding refine_section_internal performs.
B64Encode(t) == <<"b64", t>>
B64Valid(x) == Len(x) = 2 /\ x[1] = "b64"
B64Decode(x) == x[2]
OriginalTexts == {B64Encode("t1"), <<"not base64">>}

\* write_section's fallback section key: title.lower().replace(" ", "-").
SectionKey(title) ==
    CASE title = "Executive Summary" -> "executive-summary"
      [] OTHER -> "section"

\* ----------------------------------------------------------- session state
\* SessionState with its defaults. ids: customer_id and opportunity_id are set.
DefaultState ==
    [ids |-> FALSE, fail_fast |-> FALSE, transcripts |-> {},
     transcripts_loaded |-> FALSE, context_extracted |-> FALSE,
     context |-> None, completed_sections |-> {}, failures |-> FALSE]

FactsPath(s) == [dir |-> "context", sid |-> s, name |-> <<"facts", 0>>]
StatsPath(s) == [dir |-> "context", sid |-> s, name |-> <<"facts_stats", 0>>]
TranscriptPath(s, key) == [dir |-> "transcripts/extracted", sid |-> s, name |-> key]
RawPath(s, key) == [dir |-> "transcripts/raw", sid |-> s, name |-> key]
FailuresPath(s) == [dir |-> "transcripts/extracted", sid |-> s, name |-> <<"_failures", 0>>]
\* write_section reads prior sections from .temp/<sid>/sections/*.txt and writes
\* the new one to .temp/sections/<sid>/<key>.md.
PriorSectionPath(s, key) == [dir |-> "sid/sections", sid |-> s, name |-> key]
SectionPath(s, key) == [dir |-> "sections/sid", sid |-> s, name |-> key]

\* ------------------------------------------------------- handler positions
WkInit == [st |-> None, blobs |-> <<>>, facts |-> {}, skipped |-> {},
           text |-> None, res |-> None,
           exc |-> None, cpSeen |-> "none", ctxSeen |-> "none", prompt |-> None,
           handler |-> "none"]
NoCalls == [text |-> 0, json |-> 0, fetch |-> 0]

\* blocking_work returned or raised: its locals are gone, its outcome is kept
\* (with what the run observed of the session and the section prompt it sent,
\* for the properties below). handler is the coroutine the task was created
\* with.
Returned(w, text) ==
    [WkInit EXCEPT !.res = Some(text), !.cpSeen = w.cpSeen, !.ctxSeen = w.ctxSeen,
                   !.prompt = w.prompt, !.handler = w.handler]
Raised(w, msg) ==
    [WkInit EXCEPT !.exc = Some(msg), !.cpSeen = w.cpSeen, !.ctxSeen = w.ctxSeen,
                   !.prompt = w.prompt, !.handler = w.handler]

Metadata(s, ids, title, orig) ==
    [session_id |-> s, ids |-> ids, section_title |-> title, original_text |-> orig]

\* A handler that runs the work again when it raised.
AfterWorkRetries(w) == IF w.exc # None THEN "load" ELSE "finish"

\* Where the handler resumes when blocking_work ends: after the await on a
\* return, in the except clause on an exception.
AfterWork(w) == IF w.exc # None THEN "except" ELSE "finish"

\* A blocking_work that goes to the section without prepare_session_state.
FirstWorkPcSection(job_type) ==
    IF job_type = JOB_TYPE_GENERATE THEN "ws_run" ELSE "rf_load"

FirstWorkPc(job_type) == IF job_type = JOB_TYPE_GENERATE THEN "load" ELSE "rf_load"

\* "job.update_status(status, result); job_storage.update_job(job)" inside the
\* try: the Job object, the records and whether update_job raised.
TryPersist(st, jb, id, status, result, o) ==
    LET jb1 == UpdateStatus(jb, status, result, None)
    IN [store |-> Write(Alias(st, id, jb1), id, jb1, o), job |-> jb1, raised |-> o # "ok"]

\* The except clause: "job.update_status(FAILED, error={error_code, message});
\* job_storage.update_job(job)"; an exception of this update_job leaves the handler.
ExceptPersist(st, jb, id, msg, o) ==
    LET jb2 == UpdateStatus(jb, FAILED, None, Some(ErrorDescriptor(msg)))
    IN [store |-> Write(Alias(st, id, jb2), id, jb2, o), job |-> jb2, raised |-> o # "ok"]

\* ----------------------------------------------------------------- actions
\* An endpoint that starts job_generate whatever job it created.
HandlerForAlwaysGenerate(job_type) == "job_generate"

\* "asyncio.create_task(job_generate(job.job_id))" of /generate and
\* "asyncio.create_task(job_refine(job.job_id))" of /refine.
HandlerFor(job_type) ==
    IF job_type = JOB_TYPE_GENERATE THEN "job_generate" ELSE "job_refine"

\* The work a handler runs: generate_section_internal or refine_section_internal.
WorkOf(handler) ==
    IF handler = "job_generate" THEN JOB_TYPE_GENERATE ELSE JOB_TYPE_REFINE

\* POST /generate and POST /refine: create_job, then create_task(handler).
\* On Redis create_job is an update_job: it can raise, and then no task starts.
Submit(job_type, s, ids, title, orig) ==
    /\ nJobs < MaxJobs
    /\ LET id == nJobs + 1 IN
       \E o \in WriteOutcomes :
          /\ nJobs' = id
          /\ store' = IF o = "lost" THEN store
                      ELSE CreateJob(store, id, job_type, Metadata(s, ids, title, orig))
          /\ pc' = [pc EXCEPT ![id] = IF o = "ok" THEN "queued" ELSE "rejected"]
          /\ wk' = [wk EXCEPT ![id].handler =
                        IF o = "ok" THEN HandlerFor(job_type) ELSE @]
    /\ UNCHANGED <<backend, job, calls, cp, files>>
    /\ UNCHANGED mergeVars
    /\ UNCHANGED listing
    /\ UNCHANGED apiVars

Generate == \E s \in Sessions, ids \in BOOLEAN, title \in SectionTitles :
                Submit(JOB_TYPE_GENERATE, s, ids, title, None)

Refine == \E s \in Sessions, ids \in BOOLEAN, title \in SectionTitles,
             orig \in OriginalTexts :
                Submit(JOB_TYPE_REFINE, s, ids, title, orig)

\* A handler that records a failure under the id it did not find.
AbsentReturnMarksFailed(st, id) ==
    [st EXCEPT ![id] = Some([job_type |-> JOB_TYPE_GENERATE, status |-> FAILED,
                             result |-> None,
                             error |-> Some(ErrorDescriptor("Job not found")),
                             metadata |-> Metadata("s1", FALSE, "Executive Summary", None)])]

\* "if not job: return": the records after the handler returned.
AbsentReturn(st, id) == st

\* job_generate / job_refine up to the await: get_job (outside the try), return
\* if absent, then update_status(PROCESSING) and update_job inside the try.
HandlerStart(id) ==
    /\ pc[id] = "queued"
    /\ \E g \in ReadOutcomes, o \in WriteOutcomes :
         IF g = "raise"
         THEN /\ pc' = [pc EXCEPT ![id] = "crashed_get"]
              /\ UNCHANGED <<store, job, wk>>
         ELSE IF GetJob(store, id) = None
         THEN /\ pc' = [pc EXCEPT ![id] = "skipped"]
              /\ store' = AbsentReturn(store, id)
              /\ UNCHANGED <<job, wk>>
         ELSE LET jb == GetJob(store, id)[1]
                  r == TryPersist(store, jb, id, PROCESSING, None, o)
              IN /\ store' = r.store
                 /\ job' = [job EXCEPT ![id] = Some(r.job)]
                 /\ wk' = [wk EXCEPT ![id].exc = IF r.raised THEN Some(MsgStore) ELSE @]
                 /\ pc' = [pc EXCEPT ![id] = IF r.raised THEN "except"
                                             ELSE FirstWorkPc(WorkOf(wk[id].handler))]
    /\ UNCHANGED <<backend, nJobs, calls, cp, files>>
    /\ UNCHANGED mergeVars
    /\ UNCHANGED listing
    /\ UNCHANGED apiVars

\* The result payload of a completed job (section text as base64).
ResultOf(jb, text) ==
    [kind |-> IF jb.job_type = JOB_TYPE_GENERATE THEN "generated_section"
              ELSE "refined_section",
     ids |-> jb.metadata.ids,
     section_title |-> jb.metadata.section_title,
     section_b64 |-> B64Encode(text)]

\* The handler after run_in_executor returned: encode the text,
\* update_status(COMPLETED, result), update_job.
HandlerFinish(id) ==
    /\ pc[id] = "finish"
    /\ \E o \in WriteOutcomes :
         LET jb == job[id][1]
             r == TryPersist(store, jb, id, COMPLETED,
                             Some(ResultOf(jb, wk[id].res[1])), o)
         IN /\ store' = r.store
            /\ job' = [job EXCEPT ![id] = Some(r.job)]
            /\ wk' = [wk EXCEPT ![id].exc = IF r.raised THEN Some(MsgStore) ELSE @]
            /\ pc' = [pc EXCEPT ![id] = IF r.raised THEN "except" ELSE "done"]
    /\ UNCHANGED <<backend, nJobs, calls, cp, files>>
    /\ UNCHANGED mergeVars
    /\ UNCHANGED listing
    /\ UNCHANGED apiVars

\* The handler's "except Exception as e" clause, entered from the work or from
\* an update_job of the try body.
HandlerExcept(id) ==
    /\ pc[id] = "except"
    /\ \E o \in WriteOutcomes :
         LET r == ExceptPersist(store, job[id][1], id, wk[id].exc[1], o)
         IN /\ store' = r.store
            /\ job' = [job EXCEPT ![id] = Some(r.job)]
            /\ pc' = [pc EXCEPT ![id] = IF r.raised THEN "crashed" ELSE "done"]
    /\ UNCHANGED <<backend, nJobs, wk, calls, cp, files>>
    /\ UNCHANGED mergeVars
    /\ UNCHANGED listing
    /\ UNCHANGED apiVars

\* A status endpoint that answers an unknown id the way it answers a failed job.
GetJobStatusMissingAsFailed(st, id, g) ==
    IF g = "raise"
    THEN [http |-> 500, status |-> "error", code |-> ERR_INTERNAL_ERROR,
          job_id |-> id, job_status |-> None, result |-> None, error |-> None]
    ELSE IF GetJob(st, id) = None
    THEN [http |-> 200, status |-> "error", code |-> "",
          job_id |-> id, job_status |-> Some(FAILED), result |-> None,
          error |-> Some(ErrorDescriptor("Job not found"))]
    ELSE LET jb == GetJob(st, id)[1] IN
         [http |-> 200,
          status |-> CASE jb.status = COMPLETED -> "ready"
                       [] jb.status = FAILED -> "error"
                       [] OTHER -> "processing",
          code |-> "",
          job_id |-> id,
          job_status |-> Some(jb.status),
          result |-> IF jb.status = COMPLETED THEN jb.result ELSE None,
          error |-> IF jb.status = FAILED THEN jb.error ELSE None]

\* GET /status/{job_id}.
GetJobStatus(st, id, g) ==
    IF g = "raise"
    THEN [http |-> 500, status |-> "error", code |-> ERR_INTERNAL_ERROR,
          job_id |-> id, job_status |-> None, result |-> None, error |-> None]
    ELSE IF GetJob(st, id) = None
    THEN [http |-> 404, status |-> "error", code |-> "JOB_NOT_FOUND",
          job_id |-> id, job_status |-> None, result |-> None, error |-> None]
    ELSE LET jb == GetJob(st, id)[1] IN
         [http |-> 200,
          status |-> CASE jb.status = COMPLETED -> "ready"
                       [] jb.status = FAILED -> "error"
                       [] OTHER -> "processing",
          code |-> "",
          job_id |-> id,
          job_status |-> Some(jb.status),
          result |-> IF jb.status = COMPLETED THEN jb.result ELSE None,
          error |-> IF jb.status = FAILED THEN jb.error ELSE None]

\* A get_job that takes the record out of the backend (dict.pop, GETDEL).
StoreAfterGetPops(st, id) == [st EXCEPT ![id] = None]

\* get_job leaves the backend's records as they are (a dict lookup, a Redis GET).
StoreAfterGet(st, id) == st

\* A status query that waits until no blocking_work is running (the work done
\* on the event loop instead of in the executor).
PollWaitsForWork(id) ==
    /\ \A other \in JobIds : pc[other] \notin {"load", "load_write", "extract",
                                                "extract_write", "ws_check", "ws_run",
                                                "rf_load", "rf_llm"}
    /\ polls < MaxPolls
    /\ polls' = polls + 1
    /\ store' = StoreAfterGet(store, id)
    /\ UNCHANGED <<backend, nJobs, job, pc, wk, calls, cp, files>>
    /\ UNCHANGED mergeVars
    /\ UNCHANGED listing
    /\ UNCHANGED <<clock, ticks, expires, written, twin, foreign, ret, retTwin>>

Poll(id) ==
    /\ polls < MaxPolls
    /\ polls' = polls + 1
    /\ store' = StoreAfterGet(store, id)
    /\ UNCHANGED <<backend, nJobs, job, pc, wk, calls, cp, files>>
    /\ UNCHANGED mergeVars
    /\ UNCHANGED listing
    /\ UNCHANGED <<clock, ticks, expires, written, twin, foreign, ret, retTwin>>

\* delete_job(job_id) on a record that exists.
Delete(id) ==
    /\ store[id] # None
    /\ store' = DeleteJob(store, id)
    /\ UNCHANGED <<backend, nJobs, job, pc, wk, calls, cp, files>>
    /\ UNCHANGED mergeVars
    /\ UNCHANGED listing
    /\ UNCHANGED apiVars

\* ------------------------------------------------- worker thread: REFINE
SessionOf(id) == job[id][1].metadata.session_id

\* A refine_section that never takes the "if not cp" branch.
SessionMissingNever(c) == FALSE

\* refine_section: "if not cp: raise RuntimeError('Session not initialized')".
SessionMissing(c) == c = None

\* A refine_section that checkpoints the refined section as write_section
\* means to for a generated one.
RefineCheckpointAppends(c, st) ==
    Some([st EXCEPT !.completed_sections =
              @ \cup {[key |-> "refined", source |-> "human"]}])

\* The checkpoint of the session after refine_section ran on state st: the
\* function only reads it (checkpointer.aget), so it is what it was.
RefineCheckpoint(c, st) == c

\* refine_section_internal up to the provider call: decode original_text, open
\* the checkpointer, aget the session's checkpoint, read the facts artifact.
RefineLoad(id) ==
    /\ pc[id] = "rf_load"
    /\ LET md == job[id][1].metadata
           c == cp[md.session_id]
       IN IF ~B64Valid(md.original_text)
          THEN /\ wk' = [wk EXCEPT ![id] = Raised(@, MsgInvalidBase64)]
               /\ pc' = [pc EXCEPT ![id] = AfterWork(wk'[id])]
          ELSE IF SessionMissing(c)
          THEN /\ wk' = [wk EXCEPT ![id] =
                         Raised([@ EXCEPT !.cpSeen = "absent"], MsgSessionNotInit)]
               /\ pc' = [pc EXCEPT ![id] = AfterWork(wk'[id])]
          ELSE /\ wk' = [wk EXCEPT ![id].st = IF c = None THEN Some(DefaultState) ELSE c,
                                   ![id].cpSeen = IF c = None THEN "absent" ELSE "present",
                                   ![id].text = Some(B64Decode(md.original_text))]
               /\ pc' = [pc EXCEPT ![id] = "rf_llm"]
    /\ UNCHANGED <<backend, store, nJobs, job, calls, cp, files>>
    /\ UNCHANGED mergeVars
    /\ UNCHANGED listing
    /\ UNCHANGED apiVars

\* refine_section: the single generate_text call and the returned dict.
RefineCall(id) ==
    /\ pc[id] = "rf_llm"
    /\ calls' = [calls EXCEPT ![id].text = @ + 1]
    /\ \/ wk' = [wk EXCEPT ![id] = Raised(@, MsgEmptyText)]
       \/ \E t \in ProviderTexts : wk' = [wk EXCEPT ![id] = Returned(@, t)]
    /\ cp' = [cp EXCEPT ![SessionOf(id)] = RefineCheckpoint(@, wk[id].st[1])]
    /\ pc' = [pc EXCEPT ![id] = AfterWork(wk'[id])]
    /\ UNCHANGED <<backend, store, nJobs, job, files>>
    /\ UNCHANGED mergeVars
    /\ UNCHANGED listing
    /\ UNCHANGED apiVars

\* ----------------------------------------------- worker thread: GENERATE
\* Entering the session graph for thread_id = session_id: the run starts from
\* the session's latest checkpoint (or the defaults) with the request's
\* identifiers; after each node the run's state is checkpointed.
GraphEnter(c, ids) ==
    LET base == IF c = None THEN DefaultState ELSE c[1]
    IN [base EXCEPT !.ids = @ \/ ids]

Checkpoint(c, st) == Some(st)

\* fetch_transcript_blobs: raises on a Supabase error, else the blobs that
\* downloaded (a failed or empty download is skipped).
FetchOutcomes == {[ok |-> FALSE, blobs |-> <<>>], [ok |-> TRUE, blobs |-> <<>>]}
                 \cup {[ok |-> TRUE, blobs |-> <<d>>] : d \in Docs}

\* A loader without its once-per-session guard.
AlreadyLoadedNever(st) == FALSE

\* load_transcripts_once_per_session's guard.
AlreadyLoaded(st) == st.transcripts_loaded /\ st.transcripts # {}

\* A node that goes on to the fetch without identifiers.
IdsMissingNever(st) == FALSE

\* ensure_transcripts_loaded: "if not customer_id or not opportunity_id: return state".
IdsMissing(st) == ~st.ids

\* A loading stage that one job at a time may be inside.
LoadTranscriptsOneAtATime(id) ==
    /\ pc[id] = "load"
    /\ \A other \in JobIds \ {id} : pc[other] # "load_write"
    /\ LET md == job[id][1].metadata
           s == md.session_id
           st == GraphEnter(cp[s], md.ids)
       IN IF IdsMissing(st) \/ AlreadyLoaded(st)
          THEN /\ wk' = [wk EXCEPT ![id].st = Some(st)]
               /\ cp' = [cp EXCEPT ![s] = Checkpoint(@, st)]
               /\ pc' = [pc EXCEPT ![id] = "extract"]
               /\ UNCHANGED calls
          ELSE /\ calls' = [calls EXCEPT ![id].fetch = @ + 1]
               /\ UNCHANGED cp
               /\ \E f \in FetchOutcomes :
                    IF f.ok
                    THEN /\ wk' = [wk EXCEPT ![id].st = Some(st), ![id].blobs = f.blobs]
                         /\ pc' = [pc EXCEPT ![id] = "load_write"]
                    ELSE /\ wk' = [wk EXCEPT ![id] = Raised(@, MsgSupabase)]
                         /\ pc' = [pc EXCEPT ![id] = AfterWork(wk'[id])]
    /\ UNCHANGED <<backend, store, nJobs, job, files>>
    /\ UNCHANGED mergeVars
    /\ UNCHANGED listing
    /\ UNCHANGED apiVars

\* ensure_transcripts_loaded and load_transcripts_once_per_session up to the fetch.
LoadTranscripts(id) ==
    /\ pc[id] = "load"
    /\ LET md == job[id][1].metadata
           s == md.session_id
           st == GraphEnter(cp[s], md.ids)
       IN IF IdsMissing(st) \/ AlreadyLoaded(st)
          THEN /\ wk' = [wk EXCEPT ![id].st = Some(st)]
               /\ cp' = [cp EXCEPT ![s] = Checkpoint(@, st)]
               /\ pc' = [pc EXCEPT ![id] = "extract"]
               /\ UNCHANGED calls
          ELSE /\ calls' = [calls EXCEPT ![id].fetch = @ + 1]
               /\ UNCHANGED cp
               /\ \E f \in FetchOutcomes :
                    IF f.ok
                    THEN /\ wk' = [wk EXCEPT ![id].st = Some(st), ![id].blobs = f.blobs]
                         /\ pc' = [pc EXCEPT ![id] = "load_write"]
                    ELSE /\ wk' = [wk EXCEPT ![id] = Raised(@, MsgSupabase)]
                         /\ pc' = [pc EXCEPT ![id] = AfterWork(wk'[id])]
    /\ UNCHANGED <<backend, store, nJobs, job, files>>
    /\ UNCHANGED mergeVars
    /\ UNCHANGED listing
    /\ UNCHANGED apiVars

\* A _dedupe_name that always answers the base name.
DedupeNameNone(s, doc, fs) == 1

\* _dedupe_name: base, base_2, base_3, ... : the first whose .txt does not exist.
DedupeName(s, doc, fs) ==
    CHOOSE n \in 1..(Cardinality(fs) + 1) :
        /\ TranscriptPath(s, <<doc, n>>) \notin fs
        /\ \A m \in 1..(n - 1) : TranscriptPath(s, <<doc, m>>) \in fs

\* The loop over blobs: write the raw file, extract the text, write the .txt
\* and record the FileRef; a failure is collected, or re-raised when fail_fast.
RECURSIVE LoadBlobs(_, _, _, _, _, _)
LoadBlobs(s, blobs, outs, fail_fast, i, acc) ==
    IF i > Len(blobs) \/ acc.raised THEN acc
    ELSE LET key == <<blobs[i], DedupeName(s, blobs[i], acc.files)>>
             raw == acc.files \cup {RawPath(s, key)}
         IN IF outs[i] = "ok"
            THEN LoadBlobs(s, blobs, outs, fail_fast, i + 1,
                           [acc EXCEPT !.files = raw \cup {TranscriptPath(s, key)},
                                       !.new = @ \cup {key}])
            ELSE LoadBlobs(s, blobs, outs, fail_fast, i + 1,
                           [acc EXCEPT !.files = raw, !.failures = TRUE,
                                       !.raised = fail_fast])

\* The patch of load_transcripts_once_per_session applied to the run's state.
LoadPatch(st, r) ==
    [st EXCEPT !.ids = TRUE,
               !.transcripts = @ \cup r.new,
               !.failures = @ \/ r.failures,
               !.transcripts_loaded = (st.transcripts \cup r.new) # {}]

LoadWrite(id) ==
    /\ pc[id] = "load_write"
    /\ LET s == SessionOf(id)
           st == wk[id].st[1]
           blobs == wk[id].blobs
       IN \E outs \in [1..Len(blobs) -> {"ok", "fail"}] :
            LET r == LoadBlobs(s, blobs, outs, st.fail_fast, 1,
                               [files |-> files, new |-> {}, failures |-> FALSE,
                                raised |-> FALSE])
            IN IF r.raised
               THEN /\ files' = r.files
                    /\ wk' = [wk EXCEPT ![id] = Raised(@, MsgExtraction)]
                    /\ pc' = [pc EXCEPT ![id] = AfterWork(wk'[id])]
                    /\ UNCHANGED cp
               ELSE /\ files' = IF r.failures THEN r.files \cup {FailuresPath(s)}
                                ELSE r.files
                    /\ wk' = [wk EXCEPT ![id].st = Some(LoadPatch(st, r))]
                    /\ cp' = [cp EXCEPT ![s] = Checkpoint(@, LoadPatch(st, r))]
                    /\ pc' = [pc EXCEPT ![id] = "extract"]
    /\ UNCHANGED <<backend, store, nJobs, job, calls>>
    /\ UNCHANGED mergeVars
    /\ UNCHANGED listing
    /\ UNCHANGED apiVars

\* ensure_context_extracted: the no-op guard, the empty-transcripts return, the
\* transcripts_loaded check, then one generate_json call per chunk.
ContextDone(st, fs) ==
    st.context_extracted /\ st.context # None /\ st.context[1] \in fs

\* The patch ensure_context_extracted returns when state.transcripts is empty.
EmptyTranscriptsPatch(st) ==
    [st EXCEPT !.context_extracted = FALSE, !.context = None]

\* chunk_text: the chunks of the transcripts read, MaxChunks for each.
Chunks(readable) == {<<k, c>> : k \in readable, c \in 1..MaxChunks}

\* What one chunk's generate_json call and the validation of its items give:
\* facts, a provider exception, an output that is not a list, or a list none
\* of whose items validates (an invalid item beside a valid one still gives
\* facts).
ChunkOutcomes == {"facts", "raise", "not_list", "no_valid_item"}

\* An extraction loop in which one chunk without facts discards the facts of
\* the chunks beside it.
KeptChunksAllOrNothing(chunks, outs) ==
    IF \A ch \in chunks : outs[ch] = "facts" THEN chunks ELSE {}

\* The chunks whose facts reach all_facts: "except Exception: continue", "if not
\* isinstance(raw, list): continue", "if chunk_facts: ...".
KeptChunks(chunks, outs) == {ch \in chunks : outs[ch] = "facts"}
SkippedChunks(chunks, outs) == {ch \in chunks : outs[ch] # "facts"}

ExtractContext(id) ==
    /\ pc[id] = "extract"
    /\ LET s == SessionOf(id)
           st == wk[id].st[1]
           readable == {k \in st.transcripts : TranscriptPath(s, k) \in files}
       IN IF ContextDone(st, files)
          THEN /\ cp' = [cp EXCEPT ![s] = Checkpoint(@, st)]
               /\ pc' = [pc EXCEPT ![id] = "ws_check"]
               /\ UNCHANGED <<wk, calls>>
          ELSE IF st.transcripts = {}
          THEN /\ cp' = [cp EXCEPT ![s] = Checkpoint(@, EmptyTranscriptsPatch(st))]
               /\ wk' = [wk EXCEPT ![id].st = Some(EmptyTranscriptsPatch(st))]
               /\ pc' = [pc EXCEPT ![id] = "ws_check"]
               /\ UNCHANGED calls
          ELSE IF ~st.transcripts_loaded
          THEN /\ wk' = [wk EXCEPT ![id] = Raised(@, MsgTranscriptsNotLoaded)]
               /\ pc' = [pc EXCEPT ![id] = AfterWork(wk'[id])]
               /\ UNCHANGED <<cp, calls>>
          ELSE /\ calls' = [calls EXCEPT ![id].json = @ + Cardinality(Chunks(readable))]
               /\ \E outs \in [Chunks(readable) -> ChunkOutcomes] :
                    wk' = [wk EXCEPT ![id].facts = KeptChunks(Chunks(readable), outs),
                                     ![id].skipped = SkippedChunks(Chunks(readable), outs)]
               /\ pc' = [pc EXCEPT ![id] = "extract_write"]
               /\ UNCHANGED cp
    /\ UNCHANGED <<backend, store, nJobs, job, files>>
    /\ UNCHANGED mergeVars
    /\ UNCHANGED listing
    /\ UNCHANGED apiVars

\* A patch that sets the flag without the reference to the artifact.
ExtractedPatchNoContext(st, s) == [st EXCEPT !.context_extracted = TRUE]

\* The patch ensure_context_extracted returns after writing the artifacts.
ExtractedPatch(st, s) ==
    [st EXCEPT !.context_extracted = TRUE, !.context = Some(FactsPath(s))]

ExtractWrite(id) ==
    /\ pc[id] = "extract_write"
    /\ LET s == SessionOf(id)
           st == ExtractedPatch(wk[id].st[1], s)
       IN /\ files' = files \cup {FactsPath(s), StatsPath(s)}
          /\ wk' = [wk EXCEPT ![id].st = Some(st)]
          /\ cp' = [cp EXCEPT ![s] = Checkpoint(@, st)]
          /\ pc' = [pc EXCEPT ![id] = "ws_check"]
    /\ UNCHANGED <<backend, store, nJobs, job, calls>>
    /\ UNCHANGED mergeVars
    /\ UNCHANGED listing
    /\ UNCHANGED apiVars

\* A write_section without its prerequisite check.
ContextMissingNever(st) == FALSE

\* write_section step 1: "if not state.context_extracted: raise ValueError".
ContextMissing(st) == ~st.context_extracted

WriteSectionCheck(id) ==
    /\ pc[id] = "ws_check"
    /\ LET st == wk[id].st[1]
       IN IF ContextMissing(st)
          THEN /\ wk' = [wk EXCEPT ![id] =
                         Raised([@ EXCEPT !.ctxSeen = "missing"], MsgContextRequired)]
               /\ pc' = [pc EXCEPT ![id] = AfterWork(wk'[id])]
          ELSE IF st.context # None /\ st.context[1] \notin files
          THEN /\ wk' = [wk EXCEPT ![id] =
                         Raised([@ EXCEPT !.ctxSeen = "extracted"], MsgFileNotFound)]
               /\ pc' = [pc EXCEPT ![id] = AfterWork(wk'[id])]
          ELSE /\ wk' = [wk EXCEPT ![id].ctxSeen =
                             IF st.context_extracted THEN "extracted" ELSE "missing"]
               /\ pc' = [pc EXCEPT ![id] = "ws_run"]
    /\ UNCHANGED <<backend, store, nJobs, job, calls, cp, files>>
    /\ UNCHANGED mergeVars
    /\ UNCHANGED listing
    /\ UNCHANGED apiVars

\* SectionRef's required fields, and the keyword arguments write_section passes.
SectionRefRequired == {"section_id", "key", "md_path", "updated_at"}
SectionRefSupplied == {"section_id", "key", "path", "updated_at", "source"}

\* generate_text calls of write_section, in order: filter_input_for_section,
\* the section prompt, finalise_section.
WriteSectionCalls == 3

\* Texts write_section handles: what a file holds, what the provider returned.
FileText(path) == [kind |-> "file", of |-> Some(path)]
EmptyText == [kind |-> "file", of |-> None]
FilterOutput(t) == [kind |-> "filtered", of |-> Some(t)]

\* write_section step 1: facts_text is the text of state.context.path ("" when
\* the state has no context).
FactsText(st) == IF st.context # None THEN FileText(st.context[1]) ELSE EmptyText

\* write_section step 2: the files of .temp/<sid>/sections the prompt quotes.
PriorSections(s, fs) == {f \in fs : f = PriorSectionPath(s, f.name)}

\* The _build_section_prompt call of step 4: "facts_text=facts_text,
\* prior_sections=...". filtered_facts, computed just before, is not passed.
SectionPrompt(facts_text, filtered_facts, prior_sections) ==
    [facts |-> facts_text, prior |-> prior_sections]

\* write_section steps 2 to 6 (they touch nothing shared before the file write):
\* the provider calls, the first n - 1 of which return text when the n-th
\* raises (the prompt is built once the filter, the first call, returned);
\* then the .md file, the SectionRef and the returned dict, of which
\* generate_section_internal keeps only "content".
WriteSectionRun(id) ==
    /\ pc[id] = "ws_run"
    /\ LET s == SessionOf(id)
           key == SectionKey(job[id][1].metadata.section_title)
           facts_text == FactsText(wk[id].st[1])
           prior_sections == PriorSections(s, files)
       IN \/ /\ calls' = [calls EXCEPT ![id].text = @ + 1]
             /\ wk' = [wk EXCEPT ![id] = Raised(@, MsgEmptyText)]
             /\ UNCHANGED files
          \/ \E n \in 2..WriteSectionCalls, filtered \in ProviderTexts :
                /\ calls' = [calls EXCEPT ![id].text = @ + n]
                /\ wk' = [wk EXCEPT ![id] =
                            Raised([@ EXCEPT !.prompt =
                                Some(SectionPrompt(facts_text, FilterOutput(filtered),
                                                   prior_sections))], MsgEmptyText)]
                /\ UNCHANGED files
          \/ \E section_md \in ProviderTexts, filtered \in ProviderTexts :
                /\ calls' = [calls EXCEPT ![id].text = @ + WriteSectionCalls]
                /\ files' = files \cup {SectionPath(s, <<key, 0>>)}
                /\ wk' = [wk EXCEPT ![id] =
                            LET w == [@ EXCEPT !.prompt =
                                        Some(SectionPrompt(facts_text,
                                                           FilterOutput(filtered),
                                                           prior_sections))]
                            IN IF SectionRefRequired \subseteq SectionRefSupplied
                               THEN Returned(w, section_md) ELSE Raised(w, MsgValidation)]
    /\ pc' = [pc EXCEPT ![id] = AfterWork(wk'[id])]
    /\ UNCHANGED <<backend, store, nJobs, job, cp>>
    /\ UNCHANGED mergeVars
    /\ UNCHANGED listing
    /\ UNCHANGED apiVars

\* ------------------------------------------------- fact deduplication
\* Strings are sequences of characters over a small alphabet.
IsSpace(c) == c \in {" ", "\t"}
LowerChar(c) == CASE c = "B" -> "b" [] OTHER -> c

RECURSIVE LStrip(_)
LStrip(str) == IF str # <<>> /\ IsSpace(Head(str)) THEN LStrip(Tail(str)) ELSE str

RECURSIVE RStrip(_)
RStrip(str) ==
    IF str # <<>> /\ IsSpace(str[Len(str)])
    THEN RStrip(SubSeq(str, 1, Len(str) - 1)) ELSE str

Lower(str) == [i \in 1..Len(str) |-> LowerChar(str[i])]

\* re.sub(r"\s+", " ", s): every run of whitespace becomes one space.
RECURSIVE CollapseWs(_)
CollapseWs(str) ==
    IF str = <<>> THEN <<>>
    ELSE IF IsSpace(Head(str))
         THEN <<" ">> \o CollapseWs(LStrip(str))
         ELSE <<Head(str)>> \o CollapseWs(Tail(str))

\* A _normalize whose re.sub is missing.
NormalizeNoCollapse(str) == Lower(RStrip(LStrip(str)))

\* _normalize: strip, lower, collapse whitespace.
Normalize(str) == CollapseWs(Lower(RStrip(LStrip(str))))

\* A rank table that does not tell the confidences apart.
RankFlat(confidence) == 0

\* rank = {"LOW": 0, "MEDIUM": 1, "HIGH": 2}; rank.get(confidence, 0).
Rank(confidence) ==
    CASE confidence = "MEDIUM" -> 1
      [] confidence = "HIGH" -> 2
      [] OTHER -> 0

\* A fact dict: evidence is None or a dict whose quote "" stands for a missing,
\* None or empty quote (all falsy).
FactTypes == {"KPI", "RISK"}
FactValues == {<<"b">>, <<" ", "B">>, <<" ">>, <<>>}
Confidences == {"LOW", "MEDIUM", "HIGH"}
NoQuote == ""
Evidences == {None, Some([quote |-> "q"])}
Facts == [type : FactTypes, value : FactValues, confidence : Confidences,
          evidence : Evidences]

FactKey(item) == <<item.type, Normalize(item.value)>>

\* "cur.get('evidence') or {}".
EvidenceOrEmpty(item) == IF item.evidence = None THEN [quote |-> NoQuote] ELSE item.evidence[1]

\* Position of key in the index (a dict in insertion order), 0 when absent.
IndexOf(index, key) ==
    IF \E i \in 1..Len(index) : index[i].key = key
    THEN CHOOSE i \in 1..Len(index) : index[i].key = key
    ELSE 0

\* An else branch that leaves the stored fact's quote as it is.
EvidenceMergeNoBackfill(cur, item) ==
    [cur EXCEPT !.evidence = Some(EvidenceOrEmpty(cur))]

\* The else branch of upsert: the light evidence merge, done on the stored
\* object itself.
EvidenceMerge(cur, item) ==
    LET cur_ev == EvidenceOrEmpty(cur)
        new_ev == EvidenceOrEmpty(item)
    IN [cur EXCEPT !.evidence =
            Some(IF cur_ev.quote = NoQuote /\ new_ev.quote # NoQuote
                 THEN [cur_ev EXCEPT !.quote = new_ev.quote]
                 ELSE cur_ev)]

\* An upsert without its "if not key[1]: return".
UpsertKeepsEmpty(m, id) ==
    LET item == m.heap[id]
        key == FactKey(item)
        at == IndexOf(m.index, key)
    IN IF at = 0
       THEN [m EXCEPT !.index = Append(@, [key |-> key, id |-> id])]
       ELSE LET cur == m.heap[m.index[at].id]
            IN IF Rank(item.confidence) > Rank(cur.confidence)
               THEN [m EXCEPT !.index[at].id = id]
               ELSE [m EXCEPT !.heap[m.index[at].id] = EvidenceMerge(cur, item)]

\* upsert(item) of _dedupe_merge on m = [index, heap]; id is the object passed.
Upsert(m, id) ==
    LET item == m.heap[id]
        key == FactKey(item)
        at == IndexOf(m.index, key)
    IN IF key[2] = <<>> THEN m
       ELSE IF at = 0
       THEN [m EXCEPT !.index = Append(@, [key |-> key, id |-> id])]
       ELSE LET cur == m.heap[m.index[at].id]
            IN IF Rank(item.confidence) > Rank(cur.confidence)
               THEN [m EXCEPT !.index[at].id = id]
               ELSE [m EXCEPT !.heap[m.index[at].id] = EvidenceMerge(cur, item)]

RECURSIVE UpsertAll(_, _, _)
UpsertAll(m, ids, i) ==
    IF i > Len(ids) THEN m ELSE UpsertAll(Upsert(m, ids[i]), ids, i + 1)

\* _dedupe_merge(existing, new) on the heap hp: the returned list (object ids
\* in index order) and the heap after the call.
DedupeMerge(hp, ex, nw) ==
    LET m == UpsertAll(UpsertAll([index |-> <<>>, heap |-> hp], ex, 1), nw, 1)
    IN [ids |-> [i \in 1..Len(m.index) |-> m.index[i].id], heap |-> m.heap]

\* The value of a list of fact objects (what json.dumps of it would write).
Snapshot(hp, ids) == [i \in 1..Len(ids) |-> hp[ids[i]]]

\* all_facts = _dedupe_merge(all_facts, chunk_facts), applied to the same batch twice.
MergeOnce ==
    /\ mstep = 0
    /\ LET r == DedupeMerge(heap, existing, new)
       IN /\ heap' = r.heap
          /\ merged1' = [ids |-> r.ids, facts |-> Snapshot(r.heap, r.ids)]
    /\ mstep' = 1
    /\ UNCHANGED <<existing, new, merged2, heap0, pstep, mergedP>>
    /\ UNCHANGED jobVars
    /\ UNCHANGED apiVars
    /\ UNCHANGED listing

MergeAgain ==
    /\ mstep = 1
    /\ LET r == DedupeMerge(heap, merged1.ids, new)
       IN /\ heap' = r.heap
          /\ merged2' = [ids |-> r.ids, facts |-> Snapshot(r.heap, r.ids)]
    /\ mstep' = 2
    /\ UNCHANGED <<existing, new, merged1, heap0, pstep, mergedP>>
    /\ UNCHANGED jobVars
    /\ UNCHANGED apiVars
    /\ UNCHANGED listing

\* The orders in which the facts of a batch can arrive.
ArrivalOrders(ids) ==
    {q \in [1..Len(ids) -> 1..Len(ids)] :
        \A i, j \in 1..Len(ids) : q[i] = q[j] => i = j}
Reorder(ids, q) == [i \in 1..Len(ids) |-> ids[q[i]]]

\* _dedupe_merge(existing, batch) on fresh copies of the same facts, the batch
\* in another arrival order.
MergePermuted ==
    /\ mstep = 1
    /\ pstep = 0
    /\ \E q \in ArrivalOrders(new) :
         LET r == DedupeMerge(heap0, existing, Reorder(new, q))
         IN mergedP' = [ids |-> r.ids, facts |-> Snapshot(r.heap, r.ids)]
    /\ pstep' = 1
    /\ UNCHANGED <<heap, existing, new, mstep, merged1, merged2, heap0>>
    /\ UNCHANGED jobVars
    /\ UNCHANGED apiVars
    /\ UNCHANGED listing

\* ------------------------------------------------------------ specification
NoMerge == [ids |-> <<>>, facts |-> <<>>]
NoRet == [op |-> "none", id |-> 0, value |-> None, found |-> FALSE, resp |-> None,
          raised |-> FALSE, at |-> 0]

NoListing == [ok |-> TRUE, items |-> <<>>]

\* No status query served, no store call made yet, time 0.
NoApi ==
    /\ polls = 0
    /\ clock = 0
    /\ ticks = 0
    /\ expires = [id \in JobIds |-> None]
    /\ written = [id \in JobIds |-> None]
    /\ twin = [id \in JobIds |-> None]
    /\ foreign = FALSE
    /\ ret = NoRet
    /\ retTwin = NoRet
    /\ listing = NoListing

Init ==
    /\ backend \in Backends
    /\ store = [id \in JobIds |-> None]
    /\ nJobs = 0
    /\ job = [id \in JobIds |-> None]
    /\ pc = [id \in JobIds |-> "none"]
    /\ wk = [id \in JobIds |-> WkInit]
    /\ calls = [id \in JobIds |-> NoCalls]
    /\ cp = [s \in Sessions |-> None]
    /\ files = {}
    /\ heap = <<>>
    /\ existing = <<>>
    /\ new = <<>>
    /\ mstep = 0
    /\ merged1 = NoMerge
    /\ merged2 = NoMerge
    /\ heap0 = heap
    /\ pstep = 0
    /\ mergedP = NoMerge
    /\ NoApi

Next ==
    \/ Generate
    \/ Refine
    \/ \E id \in JobIds : HandlerStart(id)
    \/ \E id \in JobIds : RefineLoad(id)
    \/ \E id \in JobIds : RefineCall(id)
    \/ \E id \in JobIds : LoadTranscripts(id)
    \/ \E id \in JobIds : LoadWrite(id)
    \/ \E id \in JobIds : ExtractContext(id)
    \/ \E id \in JobIds : ExtractWrite(id)
    \/ \E id \in JobIds : WriteSectionCheck(id)
    \/ \E id \in JobIds : WriteSectionRun(id)
    \/ \E id \in JobIds : HandlerFinish(id)
    \/ \E id \in JobIds : HandlerExcept(id)
    \/ \E id \in JobIds : Poll(id)
    \/ \E id \in JobIds : Delete(id)

Spec == Init /\ [][Next]_vars

\* The merge on its own: every heap of at most MaxFacts fact objects, split
\* into the existing collection and the new batch.
InitMerge ==
    /\ backend = "memory"
    /\ store = [id \in JobIds |-> None]
    /\ nJobs = 0
    /\ job = [id \in JobIds |-> None]
    /\ pc = [id \in JobIds |-> "none"]
    /\ wk = [id \in JobIds |-> WkInit]
    /\ calls = [id \in JobIds |-> NoCalls]
    /\ cp = [s \in Sessions |-> None]
    /\ files = {}
    /\ \E n \in 0..MaxFacts :
         /\ heap \in [1..n -> Facts]
         /\ \E k \in 0..n :
              /\ existing = [i \in 1..k |-> i]
              /\ new = [i \in 1..(n - k) |-> k + i]
    /\ mstep = 0
    /\ merged1 = NoMerge
    /\ merged2 = NoMerge
    /\ heap0 = heap
    /\ pstep = 0
    /\ mergedP = NoMerge
    /\ NoApi

\* ------------------------------------------------ the job store on its own
\* The JobStorage contract under direct calls (create_job, get_job, update_job,
\* delete_job, the status endpoint), the same calls being given to the other
\* backend as well, with the clock advancing and Redis expiring its keys.
REDIS_JOB_TTL_SECONDS == 86400

OtherBackend(b) == IF b = "memory" THEN "redis" ELSE "memory"

\* A SET without "ex": the key never expires.
ExpiryNever(now) == None

\* "ex=REDIS_JOB_TTL_SECONDS" of the SET in RedisJobStorage.update_job.
ExpiryAfterWrite(now) == Some(now + REDIS_JOB_TTL_SECONDS)

\* Redis drops a key once its expiry time is reached; the dict keeps its entries.
ExpireOn(b, st, exp, now) ==
    IF b = "redis"
    THEN [id \in JobIds |->
            IF exp[id] # None /\ exp[id][1] <= now THEN None ELSE st[id]]
    ELSE st

StoreMetadata == Metadata("s1", TRUE, "Executive Summary", None)
StoreJobTypes == {JOB_TYPE_GENERATE}
\* The Job objects a caller passes to update_job.
StoreJob(job_type, status) ==
    UpdateStatus(NewJob(job_type, StoreMetadata), status,
                 IF status = COMPLETED
                 THEN Some(ResultOf(NewJob(job_type, StoreMetadata), "t1")) ELSE None,
                 IF status = FAILED THEN Some(ErrorDescriptor(MsgEmptyText)) ELSE None)

Ret(op, id, value, found, resp, raised) ==
    [op |-> op, id |-> id, value |-> value, found |-> found, resp |-> resp,
     raised |-> raised, at |-> clock]

CreateCall(job_type) ==
    /\ nJobs < MaxJobs
    /\ LET id == nJobs + 1 IN
         /\ nJobs' = id
         /\ store' = CreateJob(store, id, job_type, StoreMetadata)
         /\ twin' = CreateJob(twin, id, job_type, StoreMetadata)
         /\ expires' = [expires EXCEPT ![id] = ExpiryAfterWrite(clock)]
         /\ written' = [written EXCEPT ![id] = Some(clock)]
         /\ ret' = Ret("create", id, Some(NewJob(job_type, StoreMetadata)), FALSE, None, FALSE)
         /\ retTwin' = ret'
    /\ UNCHANGED <<backend, job, pc, wk, calls, cp, files>>
    /\ UNCHANGED mergeVars
    /\ UNCHANGED listing
    /\ UNCHANGED <<polls, clock, ticks, foreign>>

GetReturn(st, id) ==
    Ret("get", id, IF GetJobRaises(st, id) THEN None ELSE GetJob(st, id), FALSE, None,
        GetJobRaises(st, id))

GetCall(id) ==
    /\ ret' = GetReturn(store, id)
    /\ retTwin' = GetReturn(twin, id)
    /\ store' = StoreAfterGet(store, id)
    /\ twin' = StoreAfterGet(twin, id)
    /\ UNCHANGED <<backend, nJobs, job, pc, wk, calls, cp, files>>
    /\ UNCHANGED mergeVars
    /\ UNCHANGED listing
    /\ UNCHANGED <<polls, clock, ticks, expires, written, foreign>>

UpdateCall(id, job_type, status) ==
    /\ id <= nJobs
    /\ store' = UpdateJobOn(backend, store, id, StoreJob(job_type, status))
    /\ twin' = UpdateJobOn(OtherBackend(backend), twin, id, StoreJob(job_type, status))
    /\ expires' = [expires EXCEPT ![id] = ExpiryAfterWrite(clock)]
    /\ written' = [written EXCEPT ![id] = Some(clock)]
    /\ ret' = Ret("update", id, None, FALSE, None, FALSE)
    /\ retTwin' = ret'
    /\ UNCHANGED <<backend, nJobs, job, pc, wk, calls, cp, files>>
    /\ UNCHANGED mergeVars
    /\ UNCHANGED listing
    /\ UNCHANGED <<polls, clock, ticks, foreign>>

DeleteCall(id) ==
    /\ store' = DeleteJob(store, id)
    /\ twin' = DeleteJob(twin, id)
    /\ expires' = [expires EXCEPT ![id] = None]
    /\ written' = [written EXCEPT ![id] = None]
    /\ ret' = Ret("delete", id, None, store[id] # None, None, FALSE)
    /\ retTwin' = Ret("delete", id, None, twin[id] # None, None, FALSE)
    /\ UNCHANGED <<backend, nJobs, job, pc, wk, calls, cp, files>>
    /\ UNCHANGED mergeVars
    /\ UNCHANGED listing
    /\ UNCHANGED <<polls, clock, ticks, foreign>>

\* GET /status/{job_id} on the store as it is.
StatusCall(id) ==
    /\ LET g == IF GetJobRaises(store, id) THEN "raise" ELSE "ok"
       IN ret' = Ret("status", id, IF g = "raise" THEN None ELSE GetJob(store, id),
                     FALSE, Some(GetJobStatus(store, id, g)), g = "raise")
    /\ store' = StoreAfterGet(store, id)
    /\ UNCHANGED <<backend, nJobs, job, pc, wk, calls, cp, files>>
    /\ UNCHANGED mergeVars
    /\ UNCHANGED listing
    /\ UNCHANGED <<polls, clock, ticks, expires, written, twin, foreign, retTwin>>

\* Time passes: one second, or all but a second of the TTL.
TickSteps == {1, REDIS_JOB_TTL_SECONDS - 1}
Tick(d) ==
    /\ ticks < MaxTicks
    /\ ticks' = ticks + 1
    /\ clock' = clock + d
    /\ store' = ExpireOn(backend, store, expires, clock')
    /\ twin' = ExpireOn(OtherBackend(backend), twin, expires, clock')
    /\ expires' = [id \in JobIds |->
                     IF expires[id] # None /\ expires[id][1] <= clock' THEN None
                     ELSE expires[id]]
    /\ UNCHANGED <<backend, nJobs, job, pc, wk, calls, cp, files>>
    /\ UNCHANGED mergeVars
    /\ UNCHANGED listing
    /\ UNCHANGED <<polls, written, foreign, ret, retTwin>>

\* Something other than update_job puts a value under a job's Redis key.
ForeignWrite(id, kind) ==
    /\ backend = "redis"
    /\ store' = [store EXCEPT ![id] = Some(Raw(kind))]
    /\ expires' = [expires EXCEPT ![id] = None]
    /\ foreign' = TRUE
    /\ UNCHANGED <<backend, nJobs, job, pc, wk, calls, cp, files>>
    /\ UNCHANGED mergeVars
    /\ UNCHANGED listing
    /\ UNCHANGED <<polls, clock, ticks, written, twin, ret, retTwin>>

InitStore ==
    /\ backend \in Backends
    /\ store = [id \in JobIds |-> None]
    /\ nJobs = 0
    /\ job = [id \in JobIds |-> None]
    /\ pc = [id \in JobIds |-> "none"]
    /\ wk = [id \in JobIds |-> WkInit]
    /\ calls = [id \in JobIds |-> NoCalls]
    /\ cp = [s \in Sessions |-> None]
    /\ files = {}
    /\ heap = <<>>
    /\ existing = <<>>
    /\ new = <<>>
    /\ mstep = 0
    /\ merged1 = NoMerge
    /\ merged2 = NoMerge
    /\ heap0 = heap
    /\ pstep = 0
    /\ mergedP = NoMerge
    /\ NoApi

NextStore ==
    \/ \E job_type \in StoreJobTypes : CreateCall(job_type)
    \/ \E id \in JobIds : GetCall(id)
    \/ \E id \in JobIds, job_type \in StoreJobTypes, status \in JobStatus :
            UpdateCall(id, job_type, status)
    \/ \E id \in JobIds : DeleteCall(id)
    \/ \E id \in JobIds : StatusCall(id)
    \/ \E d \in TickSteps : Tick(d)

NextRedis ==
    \/ \E job_type \in StoreJobTypes : CreateCall(job_type)
    \/ \E id \in JobIds : GetCall(id)
    \/ \E id \in JobIds : DeleteCall(id)
    \/ \E d \in TickSteps : Tick(d)
    \/ \E id \in JobIds, kind \in RawKinds : ForeignWrite(id, kind)

SpecRedis == InitStore /\ [][NextRedis]_vars

SpecStore == InitStore /\ [][NextStore]_vars

\* --------------------------------------- a dispatched job while time passes
\* The store calls of one dispatch (create_job at submission; get_job and the
\* PROCESSING update_job when the handler starts; the terminal update_job when
\* the work is over) with the clock advancing in between. The handler makes no
\* store call while blocking_work runs.
DispatchSubmit(job_type) ==
    /\ nJobs < MaxJobs
    /\ LET id == nJobs + 1 IN
         /\ nJobs' = id
         /\ store' = CreateJob(store, id, job_type, StoreMetadata)
         /\ expires' = [expires EXCEPT ![id] = ExpiryAfterWrite(clock)]
         /\ written' = [written EXCEPT ![id] = Some(clock)]
         /\ pc' = [pc EXCEPT ![id] = "queued"]
    /\ UNCHANGED <<backend, job, wk, calls, cp, files>>
    /\ UNCHANGED mergeVars
    /\ UNCHANGED listing
    /\ UNCHANGED <<polls, clock, ticks, twin, foreign, ret, retTwin>>

DispatchStart(id) ==
    /\ pc[id] = "queued"
    /\ IF GetJob(store, id) = None
       THEN /\ pc' = [pc EXCEPT ![id] = "skipped"]
            /\ UNCHANGED <<store, job, expires, written>>
       ELSE LET r == TryPersist(store, GetJob(store, id)[1], id, PROCESSING, None, "ok")
            IN /\ store' = r.store
               /\ job' = [job EXCEPT ![id] = Some(r.job)]
               /\ expires' = [expires EXCEPT ![id] = ExpiryAfterWrite(clock)]
               /\ written' = [written EXCEPT ![id] = Some(clock)]
               /\ pc' = [pc EXCEPT ![id] = "working"]
    /\ UNCHANGED <<backend, nJobs, wk, calls, cp, files>>
    /\ UNCHANGED mergeVars
    /\ UNCHANGED listing
    /\ UNCHANGED <<polls, clock, ticks, twin, foreign, ret, retTwin>>

\* The work returned a text or raised: the terminal update_status and update_job.
DispatchEnd(id) ==
    /\ pc[id] = "working"
    /\ \E ok \in BOOLEAN :
         LET r == IF ok
                  THEN TryPersist(store, job[id][1], id, COMPLETED,
                                  Some(ResultOf(job[id][1], "t1")), "ok")
                  ELSE ExceptPersist(store, job[id][1], id, MsgEmptyText, "ok")
         IN /\ store' = r.store
            /\ job' = [job EXCEPT ![id] = Some(r.job)]
    /\ expires' = [expires EXCEPT ![id] = ExpiryAfterWrite(clock)]
    /\ written' = [written EXCEPT ![id] = Some(clock)]
    /\ pc' = [pc EXCEPT ![id] = "done"]
    /\ UNCHANGED <<backend, nJobs, wk, calls, cp, files>>
    /\ UNCHANGED mergeVars
    /\ UNCHANGED listing
    /\ UNCHANGED <<polls, clock, ticks, twin, foreign, ret, retTwin>>

NextFlight ==
    \/ \E job_type \in StoreJobTypes : DispatchSubmit(job_type)
    \/ \E id \in JobIds : DispatchStart(id)
    \/ \E id \in JobIds : DispatchEnd(id)
    \/ \E d \in TickSteps : Tick(d)

SpecFlight == InitStore /\ [][NextFlight]_vars

\* --------------------------------- cleanup_old_jobs on the in-memory store
\* InMemoryJobStorage with the timestamps of its Job objects: jobs are created
\* and moved through their statuses while time passes, and cleanup_old_jobs is
\* called with a maximum age.
DEFAULT_JOB_CLEANUP_MAX_AGE_SECONDS == 3600
MaxAges == {1, DEFAULT_JOB_CLEANUP_MAX_AGE_SECONDS}

\* Job.__init__ (updated_at = created_at = time.time()) and update_status
\* (self.updated_at = time.time()): the object with its updated_at.
Timed(jb, now) == [updated_at |-> now] @@ jb

\* A comparison that also takes a job of exactly the maximum age.
StaleAtAge(now, jb, max_age_seconds) == now - jb.updated_at >= max_age_seconds

\* "current_time - job.updated_at > max_age_seconds".
Stale(now, jb, max_age_seconds) == now - jb.updated_at > max_age_seconds

\* cleanup_old_jobs: the dict after the deletions and the returned count.
CleanupOldJobs(st, now, max_age_seconds) ==
    LET to_delete == {id \in JobIds :
                        st[id] # None /\ Stale(now, st[id][1], max_age_seconds)}
    IN [store |-> [id \in JobIds |-> IF id \in to_delete THEN None ELSE st[id]],
        removed |-> Cardinality(to_delete)]

TimedCreate(job_type) ==
    /\ nJobs < MaxJobs
    /\ LET id == nJobs + 1 IN
         /\ nJobs' = id
         /\ store' = [store EXCEPT ![id] =
                         Some(Timed(NewJob(job_type, StoreMetadata), clock))]
         /\ ret' = Ret("create", id, store'[id], FALSE, None, FALSE)
    /\ UNCHANGED <<backend, job, pc, wk, calls, cp, files>>
    /\ UNCHANGED mergeVars
    /\ UNCHANGED listing
    /\ UNCHANGED <<polls, clock, ticks, expires, written, twin, foreign, retTwin>>

\* A handler's update_status and update_job on the object get_job gave it.
TimedUpdate(id, status) ==
    /\ GetJob(store, id) # None
    /\ LET jb == GetJob(store, id)[1]
           jb2 == Timed(UpdateStatus(jb, status,
                            IF status = COMPLETED THEN Some(ResultOf(jb, "t1")) ELSE None,
                            IF status = FAILED THEN Some(ErrorDescriptor(MsgEmptyText))
                            ELSE None), clock)
       IN /\ store' = UpdateJobOn("memory", store, id, jb2)
          /\ ret' = Ret("update", id, None, FALSE, None, FALSE)
    /\ UNCHANGED <<backend, nJobs, job, pc, wk, calls, cp, files>>
    /\ UNCHANGED mergeVars
    /\ UNCHANGED listing
    /\ UNCHANGED <<polls, clock, ticks, expires, written, twin, foreign, retTwin>>

CleanupCall(max_age_seconds) ==
    /\ LET r == CleanupOldJobs(store, clock, max_age_seconds)
       IN /\ store' = r.store
          /\ ret' = [op |-> "cleanup", max_age_seconds |-> max_age_seconds,
                     removed |-> r.removed, at |-> clock]
    /\ UNCHANGED <<backend, nJobs, job, pc, wk, calls, cp, files>>
    /\ UNCHANGED mergeVars
    /\ UNCHANGED listing
    /\ UNCHANGED <<polls, clock, ticks, expires, written, twin, foreign, retTwin>>

InitCleanup == InitStore /\ backend = "memory"

NextCleanup ==
    \/ \E job_type \in StoreJobTypes : TimedCreate(job_type)
    \/ \E id \in JobIds, status \in JobStatus : TimedUpdate(id, status)
    \/ \E max_age_seconds \in MaxAges : CleanupCall(max_age_seconds)
    \/ \E d \in TickSteps : Tick(d)

SpecCleanup == InitCleanup /\ [][NextCleanup]_vars

\* ------------------------------------- the transcript-loading stage on its own
\* One run of ensure_transcripts_loaded on a session state, for every listing
\* of at most two files of the opportunity, each with a download that works or
\* raises and a text extraction that works or raises.
ItemOutcomes == {"ok", "fail"}
OppFiles == [doc : Docs, download : ItemOutcomes, extract : ItemOutcomes]
Listings ==
    [ok : BOOLEAN, items : {<<>>} \cup {<<a>> : a \in OppFiles}
                           \cup {<<a, b>> : a, b \in OppFiles}]

\* fetch_transcript_blobs: the files whose download returned content, in order;
\* a download that raises is noted in a local list, printed, and skipped.
RECURSIVE Downloaded(_, _)
Downloaded(items, i) ==
    IF i > Len(items) THEN <<>>
    ELSE IF items[i].download = "ok"
         THEN <<items[i]>> \o Downloaded(items, i + 1)
         ELSE Downloaded(items, i + 1)

BlobNames(blobs) == [i \in 1..Len(blobs) |-> blobs[i].doc]
BlobExtracts(blobs) == [i \in 1..Len(blobs) |-> blobs[i].extract]

\* Session states a run of the stage can be entered with: a fresh session, a
\* session whose transcripts are loaded, and a session an earlier run left
\* files for without returning a patch (it raised).
FirstKey == <<"call", 1>>
EntryStates ==
    {[DefaultState EXCEPT !.ids = i, !.fail_fast = ff] : i, ff \in BOOLEAN}
    \cup {[DefaultState EXCEPT !.ids = TRUE, !.fail_fast = ff,
                              !.transcripts = {FirstKey},
                              !.transcripts_loaded = TRUE] : ff \in BOOLEAN}
EntryFiles(st, s) ==
    IF st.transcripts # {}
    THEN {{RawPath(s, FirstKey), TranscriptPath(s, FirstKey)}}
    ELSE {{}, {RawPath(s, FirstKey), TranscriptPath(s, FirstKey)}}

InitLoad ==
    /\ backend = "memory"
    /\ store = [id \in JobIds |-> None]
    /\ nJobs = 1
    /\ job = [id \in JobIds |->
                IF id = 1 THEN Some(NewJob(JOB_TYPE_GENERATE, StoreMetadata)) ELSE None]
    /\ pc = [id \in JobIds |-> IF id = 1 THEN "load" ELSE "none"]
    /\ \E st \in EntryStates :
         /\ wk = [id \in JobIds |->
                    IF id = 1 THEN [WkInit EXCEPT !.st = Some(st)] ELSE WkInit]
         /\ cp = [s \in Sessions |-> Some(st)]
         /\ files \in EntryFiles(st, "s1")
    /\ calls = [id \in JobIds |-> NoCalls]
    /\ heap = <<>>
    /\ existing = <<>>
    /\ new = <<>>
    /\ mstep = 0
    /\ merged1 = NoMerge
    /\ merged2 = NoMerge
    /\ heap0 = heap
    /\ pstep = 0
    /\ mergedP = NoMerge
    /\ polls = 0
    /\ clock = 0
    /\ ticks = 0
    /\ expires = [id \in JobIds |-> None]
    /\ written = [id \in JobIds |-> None]
    /\ twin = [id \in JobIds |-> None]
    /\ foreign = FALSE
    /\ ret = NoRet
    /\ retTwin = NoRet
    /\ listing \in Listings

\* The node up to the end of fetch_transcript_blobs. wk.st stays the state the
\* node was called with; cp becomes the state with the returned patch applied.
StageFetch(id) ==
    /\ pc[id] = "load"
    /\ LET st == wk[id].st[1]
           s == SessionOf(id)
       IN IF IdsMissing(st) \/ AlreadyLoaded(st)
          THEN /\ cp' = [cp EXCEPT ![s] = Checkpoint(@, st)]
               /\ pc' = [pc EXCEPT ![id] = "returned"]
               /\ UNCHANGED <<wk, calls>>
          ELSE /\ calls' = [calls EXCEPT ![id].fetch = @ + 1]
               /\ UNCHANGED cp
               /\ IF listing.ok
                  THEN /\ wk' = [wk EXCEPT ![id].blobs = Downloaded(listing.items, 1)]
                       /\ pc' = [pc EXCEPT ![id] = "load_write"]
                  ELSE /\ wk' = [wk EXCEPT ![id].exc = Some(MsgSupabase)]
                       /\ pc' = [pc EXCEPT ![id] = "raised"]
    /\ UNCHANGED <<backend, store, nJobs, job, files>>
    /\ UNCHANGED mergeVars
    /\ UNCHANGED apiVars
    /\ UNCHANGED listing

\* The loop over the blobs and the patch.
StageWrite(id) ==
    /\ pc[id] = "load_write"
    /\ LET s == SessionOf(id)
           st == wk[id].st[1]
           blobs == wk[id].blobs
           r == LoadBlobs(s, BlobNames(blobs), BlobExtracts(blobs), st.fail_fast, 1,
                          [files |-> files, new |-> {}, failures |-> FALSE,
                           raised |-> FALSE])
       IN IF r.raised
          THEN /\ files' = r.files
               /\ wk' = [wk EXCEPT ![id].exc = Some(MsgExtraction)]
               /\ pc' = [pc EXCEPT ![id] = "raised"]
               /\ UNCHANGED cp
          ELSE /\ files' = IF r.failures THEN r.files \cup {FailuresPath(s)}
                           ELSE r.files
               /\ cp' = [cp EXCEPT ![s] = Checkpoint(@, LoadPatch(st, r))]
               /\ pc' = [pc EXCEPT ![id] = "returned"]
               /\ UNCHANGED wk
    /\ UNCHANGED <<backend, store, nJobs, job, calls>>
    /\ UNCHANGED mergeVars
    /\ UNCHANGED apiVars
    /\ UNCHANGED listing

NextLoad ==
    \/ \E id \in JobIds : StageFetch(id)
    \/ \E id \in JobIds : StageWrite(id)

SpecLoad == InitLoad /\ [][NextLoad]_vars

\* The merge key on its own: one stored fact and one arriving fact whose values
\* are any strings of at most MaxLen characters.
Chars == {" ", "\t", "b", "B"}
Strings == UNION {[1..n -> Chars] : n \in 0..MaxLen}
KeyFacts == [type : FactTypes, value : Strings, confidence : {"LOW"},
             evidence : {None}]

InitKey ==
    /\ backend = "memory"
    /\ store = [id \in JobIds |-> None]
    /\ nJobs = 0
    /\ job = [id \in JobIds |-> None]
    /\ pc = [id \in JobIds |-> "none"]
    /\ wk = [id \in JobIds |-> WkInit]
    /\ calls = [id \in JobIds |-> NoCalls]
    /\ cp = [s \in Sessions |-> None]
    /\ files = {}
    /\ heap \in [1..2 -> KeyFacts]
    /\ existing = <<1>>
    /\ new = <<2>>
    /\ mstep = 0
    /\ merged1 = NoMerge
    /\ merged2 = NoMerge
    /\ heap0 = heap
    /\ pstep = 0
    /\ mergedP = NoMerge
    /\ NoApi

NextKey == MergeOnce

SpecKey == InitKey /\ [][NextKey]_vars

NextMerge == MergeOnce \/ MergeAgain \/ MergePermuted

SpecMerge == InitMerge /\ [][NextMerge]_vars

\* ================================================================== claims
Terminal == {COMPLETED, FAILED}
Created == {id \in JobIds : id <= nJobs}
HandlerOver(id) == pc[id] \in {"done", "crashed", "crashed_get"}
JobTypeOf(id) ==
    IF job[id] # None THEN job[id][1].job_type
    ELSE IF store[id] # None THEN store[id][1].job_type
    ELSE "unknown"
IsFailedWith(rec, msg) ==
    /\ rec.status = FAILED
    /\ rec.error = Some(ErrorDescriptor(msg))
\* Failures of the collaborators: the provider, the document storage, the
\* text extraction, the job store.
EnvironmentFailures == {MsgEmptyText, MsgSupabase, MsgExtraction, MsgStore}

\* C1: the status stored for a job only ever changes PENDING -> PROCESSING,
\* PROCESSING -> COMPLETED or PROCESSING -> FAILED.
AllowedTransitions ==
    {<<PENDING, PROCESSING>>, <<PROCESSING, COMPLETED>>, <<PROCESSING, FAILED>>}
C1_StatusTransitions ==
    [][\A id \in JobIds :
         (store[id] # None /\ store'[id] # None
            /\ store'[id][1].status # store[id][1].status)
         => <<store[id][1].status, store'[id][1].status>> \in AllowedTransitions]_vars

\* C2: in every job record (the stored one and the handler's Job object) result
\* and error are never both present, both are absent while PENDING or
\* PROCESSING, result is present only when COMPLETED and error only when FAILED.
RecordConsistent(rec) ==
    /\ ~(rec.result # None /\ rec.error # None)
    /\ rec.status \in {PENDING, PROCESSING} => rec.result = None /\ rec.error = None
    /\ rec.result # None => rec.status = COMPLETED
    /\ rec.error # None => rec.status = FAILED
C2_ResultErrorExclusive ==
    \A id \in JobIds :
        /\ store[id] # None => RecordConsistent(store[id][1])
        /\ job[id] # None => RecordConsistent(job[id][1])

\* C3: once an exception was raised while a job was being processed, the
\* handler is in its except clause or has returned with the job persisted as
\* FAILED with the descriptor {INTERNAL_ERROR, message}; it never ends with the
\* exception escaping.
C3_FailuresEndFailed ==
    \A id \in JobIds :
        wk[id].exc # None =>
            \/ pc[id] = "except"
            \/ /\ pc[id] = "done"
               /\ IsFailedWith(job[id][1], wk[id].exc[1])
               /\ store[id] # None => store[id][1] = job[id][1]

\* C4: a dispatched job whose handler is over and whose record is still in the
\* store has reached COMPLETED or FAILED (nothing will move it afterwards).
C4_DispatchedEndsTerminal ==
    \A id \in JobIds :
        HandlerOver(id) /\ store[id] # None => store[id][1].status \in Terminal

C6_GenerateWithoutTranscripts ==
    \A id \in JobIds :
        (/\ JobTypeOf(id) = JOB_TYPE_GENERATE
         /\ pc[id] = "done"
         /\ cp[SessionOf(id)] # None
         /\ cp[SessionOf(id)][1].transcripts = {}
         /\ ~(wk[id].exc # None /\ wk[id].exc[1] \in EnvironmentFailures))
        => /\ job[id][1].status = COMPLETED
           /\ job[id][1].result # None
           /\ job[id][1].result[1].section_b64 \in {B64Encode(t) : t \in ProviderTexts}

\* C7: a REFINE job that finds no checkpoint for its session makes no provider
\* call and fails with the precondition error "Session not initialized".
C7_RefineNeedsCheckpoint ==
    \A id \in JobIds :
        (JobTypeOf(id) = JOB_TYPE_REFINE /\ wk[id].cpSeen = "absent") =>
            /\ calls[id].text = 0
            /\ pc[id] \in {"except", "done", "crashed"}
            /\ wk[id].exc = Some(MsgSessionNotInit)
            /\ wk[id].res = None
            /\ pc[id] # "except" => IsFailedWith(job[id][1], MsgSessionNotInit)
            /\ (pc[id] = "done" /\ store[id] # None) => store[id][1] = job[id][1]
C7_Witness ==
    \E id \in JobIds :
        /\ JobTypeOf(id) = JOB_TYPE_REFINE
        /\ wk[id].cpSeen = "absent"
        /\ pc[id] = "done"
        /\ store[id] # None
        /\ IsFailedWith(store[id][1], MsgSessionNotInit)
        /\ cp["s1"] = None

\* C8: no step of a REFINE job changes a session checkpoint or a file; a REFINE
\* job that is COMPLETED called the text provider exactly once and its result
\* carries the text the provider returned.
RefineStepFrame ==
    \A id \in JobIds :
        (JobTypeOf(id) = JOB_TYPE_REFINE /\ pc'[id] # pc[id]) =>
            /\ cp' = cp
            /\ files' = files
RefineResult ==
    \A id \in JobIds :
        (JobTypeOf(id) = JOB_TYPE_REFINE /\ job[id] # None
            /\ job[id][1].status = COMPLETED) =>
            /\ calls[id].text = 1
            /\ wk[id].res # None
            /\ job[id][1].result # None
            /\ job[id][1].result[1].kind = "refined_section"
            /\ B64Valid(job[id][1].result[1].section_b64)
            /\ B64Decode(job[id][1].result[1].section_b64) = wk[id].res[1]
C8_RefineIsStateless == [][RefineStepFrame /\ RefineResult']_vars
C8_Witness ==
    \E id \in JobIds :
        /\ JobTypeOf(id) = JOB_TYPE_REFINE
        /\ pc[id] = "done"
        /\ store[id] # None
        /\ store[id][1].status = COMPLETED
        /\ store[id][1].result[1].section_b64 = B64Encode("t2")
        /\ store[id][1].metadata.original_text = B64Encode("t1")
        /\ calls[id].text = 1
        /\ cp["s1"] # None
        /\ cp["s1"][1].completed_sections = {}

\* C9: a GENERATE job whose precondition holds and whose collaborators do not
\* fail ends COMPLETED, and the session's checkpointed completed_sections then
\* holds the generated section's key with provenance "generated".
C9_GenerateAppendsSection ==
    \A id \in JobIds :
        (/\ JobTypeOf(id) = JOB_TYPE_GENERATE
         /\ pc[id] = "done"
         /\ wk[id].ctxSeen = "extracted"
         /\ ~(wk[id].exc # None /\ wk[id].exc[1] \in EnvironmentFailures))
        => /\ job[id][1].status = COMPLETED
           /\ cp[SessionOf(id)] # None
           /\ [key |-> SectionKey(job[id][1].metadata.section_title),
               source |-> "generated"] \in cp[SessionOf(id)][1].completed_sections

\* What a fact says: its type, value, confidence and evidence quote (an absent
\* evidence and an evidence without quote say the same).
FactView(f) ==
    [type |-> f.type, value |-> f.value, confidence |-> f.confidence,
     quote |-> EvidenceOrEmpty(f).quote]
Views(fs) == [i \in 1..Len(fs) |-> FactView(fs[i])]
\* C10: merging the same batch a second time into the result of the first
\* merge yields the collection the first merge returned, quotes included.
C10_MergeIdempotent == mstep = 2 => Views(merged2.facts) = Views(merged1.facts)

\* The collection a merge returned, as the set of what its facts say.
ViewSet(fs) == {FactView(fs[i]) : i \in 1..Len(fs)}

\* C11: merging a batch gives the same collection (per key the same surviving
\* fact, value text and evidence quote) whatever the arrival order of its facts.
C11_MergeOrderIndependent ==
    pstep = 1 => ViewSet(mergedP.facts) = ViewSet(merged1.facts)

\* The words of a text: its maximal runs of non-blank characters, lower-cased.
Blank(c) == c = " " \/ c = "\t"
Small(c) == IF c = "B" THEN "b" ELSE c
FirstWordLen(str) ==
    CHOOSE n \in 0..Len(str) :
        /\ \A i \in 1..n : ~Blank(str[i])
        /\ n = Len(str) \/ Blank(str[n + 1])
RECURSIVE Words(_)
Words(str) ==
    IF str = <<>> THEN <<>>
    ELSE IF Blank(str[1]) THEN Words(Tail(str))
    ELSE LET n == FirstWordLen(str)
         IN <<[i \in 1..n |-> Small(str[i])]>> \o Words(SubSeq(str, n + 1, Len(str)))

SecondMeetsFirst ==
    /\ mstep >= 1
    /\ Len(heap0) = 2
    /\ FactKey(heap0[1]) = FactKey(heap0[2])
    /\ FactKey(heap0[1])[2] # <<>>
\* The stored fact with a missing quote filled from the arriving fact.
Backfilled(cur, item) ==
    [FactView(cur) EXCEPT !.quote =
        IF @ = NoQuote THEN FactView(item).quote ELSE @]

RECURSIVE WithValue(_, _)
WithValue(hp, ids) ==
    IF ids = <<>> THEN <<>>
    ELSE IF Normalize(hp[Head(ids)].value) = <<>> THEN WithValue(hp, Tail(ids))
    ELSE <<Head(ids)>> \o WithValue(hp, Tail(ids))
HasEmptyValue(hp, ids) == \E i \in 1..Len(ids) : Words(hp[ids[i]].value) = <<>>

\* C14: no fact whose value is empty after normalisation is in the output of
\* the merge, and the output is what the merge returns when those facts are
\* left out of the existing collection and of the batch.
C14_EmptyValuesDiscarded ==
    mstep >= 1 =>
        /\ \A i \in 1..Len(merged1.facts) : Words(merged1.facts[i].value) # <<>>
        /\ LET r == DedupeMerge(heap0, WithValue(heap0, existing), WithValue(heap0, new))
           IN merged1.facts = Snapshot(r.heap, r.ids)
C14_Witness ==
    /\ mstep >= 1
    /\ Len(existing) >= 1
    /\ Len(new) >= 1
    /\ HasEmptyValue(heap0, existing) \/ HasEmptyValue(heap0, new)
    /\ Len(merged1.facts) = 1
    /\ Len(heap0) = 2

\* C15: a step that serves a status query, for a present or an absent job id,
\* leaves every job record, every handler, every session checkpoint and every
\* file as it was, makes no provider or fetch call and creates no job.
C15_StatusQueryReadsOnly ==
    [][polls' # polls =>
         UNCHANGED <<backend, store, nJobs, job, pc, wk, calls, cp, files>>]_vars
C15_Witness ==
    /\ polls = 1
    /\ \E id \in JobIds : store[id] # None /\ pc[id] = "ws_run"


\* C16: the status endpoint answers from the stored record alone. A COMPLETED
\* job gives "ready" with the result, a FAILED job gives "error" with the error
\* descriptor, a PROCESSING or PENDING job gives "processing" with neither;
\* an id with no record gives 404 JOB_NOT_FOUND, which is not the failed-job
\* answer (HTTP 200 carrying the job's status and descriptor).
FailedJobOutcome(r) == r.http = 200 /\ r.job_status = Some(FAILED) /\ r.error # None
C16_StatusMapping ==
    (ret.op = "status" /\ ~ret.raised) =>
        LET r == ret.resp[1] IN
        IF ret.value = None
        THEN /\ r.http = 404 /\ r.code = "JOB_NOT_FOUND"
             /\ r.result = None /\ r.error = None
             /\ ~FailedJobOutcome(r)
        ELSE LET jb == ret.value[1] IN
             /\ r.http = 200 /\ r.job_id = ret.id
             /\ jb.status = COMPLETED =>
                    r.status = "ready" /\ r.result = jb.result /\ r.error = None
             /\ jb.status = FAILED =>
                    r.status = "error" /\ r.error = jb.error /\ r.result = None
                    /\ FailedJobOutcome(r)
             /\ jb.status \in {PROCESSING, PENDING} =>
                    r.status = "processing" /\ r.result = None /\ r.error = None
\* The status of a job that was created and whose record is gone is asked for.
C16_Witness ==
    /\ ret.op = "status" /\ ret.id <= nJobs /\ ret.value = None
    /\ ret.resp[1].http = 404

\* C17: create_job, on either backend, returns a PENDING job with no result and
\* no error under an id no stored job has, and get_job with that id at once
\* returns a job of the same type, status and metadata; every other record is
\* left as it was.
Present(st) == {id \in JobIds : st[id] # None}
CreateContract(st, stAfter, r) ==
    /\ r.value # None
    /\ r.value[1].status = PENDING
    /\ r.value[1].result = None /\ r.value[1].error = None
    /\ r.id \notin Present(st)
    /\ ~GetJobRaises(stAfter, r.id)
    /\ GetJob(stAfter, r.id) # None
    /\ GetJob(stAfter, r.id)[1].job_type = r.value[1].job_type
    /\ GetJob(stAfter, r.id)[1].status = r.value[1].status
    /\ GetJob(stAfter, r.id)[1].metadata = r.value[1].metadata
    /\ \A other \in JobIds \ {r.id} : stAfter[other] = st[other]
C17_CreateContract ==
    [][nJobs' # nJobs =>
         /\ ret'.op = "create"
         /\ CreateContract(store, store', ret')
         /\ CreateContract(twin, twin', retTwin')]_vars
\* A second job is created while the first one's record is still stored.
C17_Witness ==
    /\ ret.op = "create" /\ ret.id = 2
    /\ store[1] # None /\ store[2] = ret.value
    /\ store[1][1].status # PENDING

\* C18: get_job never raises and never changes the store; it returns absent for
\* an id with no record (never created, deleted, expired) on either backend and,
\* on Redis, for a stored value that is not a well-formed job record.
C18_GetJobNeverRaises ==
    [][(ret'.op = "get" /\ ret' # ret) =>
         /\ ~ret'.raised /\ ~retTwin'.raised
         /\ store' = store /\ twin' = twin
         /\ (store[ret'.id] = None \/ IsRaw(store[ret'.id][1])) => ret'.value = None
         /\ twin[ret'.id] = None => retTwin'.value = None]_vars

\* C19: the two backends are interchangeable. As long as no TTL has elapsed,
\* the same sequence of create, get, update and delete calls leaves the same
\* records readable under every id on both, and the calls return the same job
\* and the same delete boolean, an update_job on a deleted id included.
Observed(st) == [id \in JobIds |-> GetJob(st, id)]
C19_BackendsInterchangeable ==
    clock < REDIS_JOB_TTL_SECONDS =>
        /\ Observed(store) = Observed(twin)
        /\ ret.op \in {"create", "get", "update", "delete"} =>
               /\ ret.value = retTwin.value
               /\ ret.found = retTwin.found

\* C20: on the Redis backend a job last written (created or updated) at time T
\* and not written again is returned by get_job at every time before T + TTL
\* and is absent, without an error, at every time after T + TTL.
RedisSide == IF backend = "redis" THEN store ELSE twin
RedisRet == IF backend = "redis" THEN ret ELSE retTwin
C20_RedisTTL ==
    \A id \in JobIds :
        written[id] # None =>
            LET T == written[id][1]
                r == GetReturn(RedisSide, id)
            IN /\ ~r.raised
               /\ clock < T + REDIS_JOB_TTL_SECONDS => r.value # None
               /\ clock > T + REDIS_JOB_TTL_SECONDS => r.value = None
               /\ (RedisRet.op = "get" /\ RedisRet.id = id /\ RedisRet.at = clock) =>
                      RedisRet = r
\* get_job is called more than a TTL after the job's last write, another job
\* written later being still there.
C20_Witness ==
    /\ RedisRet.op = "get" /\ RedisRet.at = clock /\ RedisRet.value = None
    /\ written[RedisRet.id] # None
    /\ clock > written[RedisRet.id][1] + REDIS_JOB_TTL_SECONDS
    /\ \E other \in JobIds : RedisSide[other] # None

\* C21: on Redis every update_job gives the record the full TTL again, and a
\* job whose dispatch is in flight (PROCESSING written, terminal status not yet
\* persisted) is never missing from the store, however long the work takes.
C21_InFlightNeverExpires ==
    \A id \in JobIds :
        /\ (backend = "redis" /\ written[id] = Some(clock)) =>
               expires[id] = Some(clock + REDIS_JOB_TTL_SECONDS)
        /\ pc[id] = "working" =>
               /\ GetJob(store, id) # None
               /\ GetJob(store, id)[1].status = PROCESSING

\* C22: a handler that finds no record for its job (deleted or expired between
\* submission and dispatch) returns at once: no job record is created or
\* changed, no pipeline stage or provider call runs for the job, and no error
\* is recorded anywhere.
C22_AbsentJobSkipped ==
    [][\A id \in JobIds :
         pc'[id] = "skipped" =>
            /\ store'[id] = None /\ job'[id] = None
            /\ calls'[id] = NoCalls
            /\ wk'[id] = [WkInit EXCEPT !.handler = wk'[id].handler]
            /\ pc[id] = "queued" =>
                   UNCHANGED <<store, job, wk, calls, cp, files>>]_vars
\* A job's handler found no record while another job of the session went on.
C22_Witness ==
    \E id, other \in JobIds :
        /\ pc[id] = "skipped"
        /\ pc[other] = "done" /\ store[other] # None

\* C23: nothing is retried. The work of a job is started at most once (only by
\* the handler's start, never from a later position), and once the job's
\* record is FAILED no provider call, fetch or pipeline stage runs on its
\* behalf and the handler does not write the record again.
WorkPcs == {"load", "load_write", "extract", "extract_write", "ws_check", "ws_run",
            "rf_load", "rf_llm"}
StoredFailed(id) == store[id] # None /\ store[id][1].status = FAILED
C23_NoRetry ==
    [][\A id \in JobIds :
         /\ (pc'[id] \in {"load", "rf_load"} /\ pc'[id] # pc[id]) => pc[id] = "queued"
         /\ (pc[id] \notin {"none", "queued"}) => pc'[id] # "queued"
         /\ StoredFailed(id) =>
               /\ calls'[id] = calls[id]
               /\ pc'[id] \notin WorkPcs \cup {"finish"}
               /\ store'[id] \in {store[id], None}]_vars
\* A job failed after its work had made provider calls, and its handler is over.
C23_Witness ==
    \E id \in JobIds :
        /\ StoredFailed(id) /\ pc[id] = "done"
        /\ calls[id].text > 0

\* C24: the transcript-loading stage is idempotent per session. Entered with
\* transcripts_loaded = true it returns an empty patch: no document fetch, no
\* file written, the session state (its transcript mapping included) as it
\* was, and the pipeline goes on to the extraction stage.
EnteredState(id) ==
    GraphEnter(cp[job[id][1].metadata.session_id], job[id][1].metadata.ids)
C24_LoadIdempotent ==
    [][\A id \in JobIds :
         (pc[id] = "load" /\ pc'[id] # "load" /\ EnteredState(id).transcripts_loaded) =>
            /\ calls'[id].fetch = calls[id].fetch
            /\ files' = files
            /\ wk'[id].st = Some(EnteredState(id))
            /\ cp'[SessionOf(id)] = Some(EnteredState(id))
            /\ pc'[id] = "extract"]_vars
\* A later job of a session whose transcripts are loaded passed the stage
\* without a fetch.
C24_Witness ==
    \E id \in JobIds :
        /\ pc[id] = "extract" /\ calls[id].fetch = 0
        /\ wk[id].st[1].transcripts_loaded /\ wk[id].st[1].transcripts # {}

\* C27: with no customer_id or no opportunity_id in the session state the
\* transcript-loading node returns the state as it is: no fetch, no file, no
\* error, and the pipeline goes on to the extraction stage.
C27_MissingIdsSkipLoad ==
    [][\A id \in JobIds :
         (pc[id] = "load" /\ pc'[id] # "load" /\ ~EnteredState(id).ids) =>
            /\ calls'[id] = calls[id]
            /\ files' = files
            /\ wk'[id].exc = None
            /\ wk'[id].st = Some(EnteredState(id))
            /\ cp'[SessionOf(id)] = Some(EnteredState(id))
            /\ pc'[id] = "extract"]_vars
\* A job without identifiers is past the loading node, nothing fetched or loaded.
C27_Witness ==
    \E id \in JobIds :
        /\ pc[id] = "extract" /\ ~job[id][1].metadata.ids
        /\ ~wk[id].st[1].ids /\ ~wk[id].st[1].transcripts_loaded
        /\ calls[id].fetch = 0

\* C25: the transcript mapping is append-only. When a run of the loading stage
\* returns, every key of the state it was entered with is still in the
\* mapping, and the entries it extracted are there under keys that were not in
\* use (no extracted file of that name existed).
TranscriptKeys == {<<d, n>> : d \in Docs, n \in 1..4}
C25_TranscriptsAppendOnly ==
    [][\A id \in JobIds :
         (pc[id] \in {"load", "load_write"} /\ pc'[id] = "returned") =>
            LET s == SessionOf(id)
                before == wk[id].st[1].transcripts
                after == cp'[s][1].transcripts
                extracted == {k \in TranscriptKeys :
                                 TranscriptPath(s, k) \in files' \ files}
            IN /\ before \subseteq after
               /\ after \ before = extracted
               /\ extracted \cap before = {}]_vars
\* Two files of the same name were extracted while an extracted file of that
\* name was already there: they are in the mapping under the next free names.
C25_Witness ==
    /\ pc[1] = "returned"
    /\ cp["s1"][1].transcripts = {<<"call", 2>>, <<"call", 3>>}
    /\ TranscriptPath("s1", FirstKey) \in files

\* C26: in the loading stage a failure on one item is collected when fail_fast
\* is false (the stage returns a patch with every item that succeeded and
\* records the failures in the failure list) and aborts the stage when
\* fail_fast is true (the stage raises and returns no patch).
ItemFailed(item) == item.download = "fail" \/ item.extract = "fail"
Succeeded(items) == {i \in 1..Len(items) : ~ItemFailed(items[i])}
SomeItemFailed(items) == \E i \in 1..Len(items) : ItemFailed(items[i])
C26_ItemFailures ==
    [][\A id \in JobIds :
         (pc[id] = "load_write" /\ pc'[id] # "load_write") =>
            LET s == SessionOf(id)
                st == wk[id].st[1]
                after == cp'[s][1]
            IN IF st.fail_fast /\ SomeItemFailed(listing.items)
               THEN /\ pc'[id] = "raised" /\ wk'[id].exc # None
                    /\ cp' = cp
               ELSE /\ pc'[id] = "returned" /\ wk'[id].exc = None
                    /\ Cardinality(after.transcripts \ st.transcripts)
                          = Cardinality(Succeeded(listing.items))
                    /\ SomeItemFailed(listing.items) =>
                          after.failures /\ FailuresPath(s) \in files']_vars

\* C28: in every checkpointed session state, and in the state every running
\* pipeline holds, context_extracted = true comes with a context reference
\* whose facts file has been written; the extraction stage returns the flag
\* only together with the file.
ContextConsistent(st) ==
    st.context_extracted => (st.context # None /\ st.context[1] \in files)
C28_ExtractedImpliesContext ==
    /\ \A s \in Sessions : cp[s] # None => ContextConsistent(cp[s][1])
    /\ \A id \in JobIds : wk[id].st # None => ContextConsistent(wk[id].st[1])
\* The extraction stage of a job has run and its state is checkpointed.
C28_Witness ==
    \E id \in JobIds :
        /\ pc[id] = "ws_check" /\ calls[id].json > 0
        /\ cp[SessionOf(id)][1].context_extracted
        /\ cp[SessionOf(id)][1].context = Some(FactsPath(SessionOf(id)))

\* C29: re-entry resumes instead of repeating. A pipeline entered for a session
\* whose loading and extraction stages have completed makes no document fetch
\* and no fact-extraction call and leaves context_extracted and context as
\* they were; and the checkpointed context_extracted, once true, never goes
\* back to false.
StagesCompleted(st) ==
    st.transcripts_loaded /\ st.context_extracted /\ st.context # None
C29_ReentryResumes ==
    [][/\ \A id \in JobIds :
            (job[id] # None /\ wk[id].st # None /\ wk[id].cpSeen = "none"
             /\ job[id][1].job_type = JOB_TYPE_GENERATE
             /\ pc[id] \in {"extract", "extract_write", "ws_check", "ws_run"}
             /\ StagesCompleted(wk[id].st[1]) /\ calls[id].fetch = 0
             /\ calls[id].json = 0) =>
                /\ calls'[id].fetch = 0 /\ calls'[id].json = 0
                /\ wk'[id].st # None =>
                      /\ wk'[id].st[1].context_extracted
                      /\ wk'[id].st[1].context = wk[id].st[1].context
       /\ \A s \in Sessions :
            (cp[s] # None /\ cp[s][1].context_extracted) =>
                cp'[s][1].context_extracted]_vars

\* C30: within one GENERATE job the stages run in the order load transcripts,
\* extract facts, generate section. No text-generation call is made before
\* both pipeline stages have finished, and the extraction stage makes its
\* calls only on a state with transcripts_loaded = true: on a non-empty
\* mapping with transcripts_loaded = false it raises.
IsGenerate(id) == job[id] # None /\ job[id][1].job_type = JOB_TYPE_GENERATE
C30_StageOrder ==
    [][\A id \in JobIds :
         (job'[id] # None /\ job'[id][1].job_type = JOB_TYPE_GENERATE) =>
            /\ (pc'[id] # pc[id] /\ pc'[id] = "load_write") => pc[id] = "load"
            /\ (pc'[id] # pc[id] /\ pc'[id] = "extract") =>
                   pc[id] \in {"load", "load_write"}
            /\ (pc'[id] # pc[id] /\ pc'[id] = "extract_write") => pc[id] = "extract"
            /\ (pc'[id] # pc[id] /\ pc'[id] = "ws_check") =>
                   pc[id] \in {"extract", "extract_write"}
            /\ (pc'[id] # pc[id] /\ pc'[id] = "ws_run") => pc[id] = "ws_check"
            /\ calls'[id].text # calls[id].text => pc[id] = "ws_run"
            /\ calls'[id].fetch # calls[id].fetch => pc[id] = "load"
            /\ (calls'[id].json # calls[id].json \/ pc'[id] = "extract_write") =>
                   (pc[id] \in {"extract", "extract_write"}
                    /\ wk[id].st[1].transcripts_loaded)
            /\ (pc[id] = "extract" /\ wk[id].st[1].transcripts # {}
                /\ ~wk[id].st[1].transcripts_loaded
                /\ ~ContextDone(wk[id].st[1], files) /\ pc'[id] # pc[id]) =>
                   wk'[id].exc = Some(MsgTranscriptsNotLoaded)]_vars
\* A GENERATE job went through the fetch, the extraction calls and the three
\* text-generation calls, and its handler is over.
C30_Witness ==
    \E id \in JobIds :
        /\ IsGenerate(id) /\ pc[id] = "done"
        /\ calls[id].fetch = 1 /\ calls[id].json > 0
        /\ calls[id].text = WriteSectionCalls


\* Section files of session s that write_section has written so far.
WrittenSections(s) == {f \in files : f = SectionPath(s, f.name)}
PromptBuilt(id) == wk[id].prompt = None /\ wk'[id].prompt # None

\* C31: the generation prompt contains the text of every section completed
\* before it was built: write_section reads prior sections from the location
\* it writes completed sections to.
C31_PromptHoldsPriorSections ==
    [][\A id \in JobIds :
          PromptBuilt(id) =>
              \A f \in WrittenSections(SessionOf(id)) :
                  \E g \in wk'[id].prompt[1].prior : g.name = f.name]_vars


\* C32: the facts in the generation prompt are the output of the
\* section-relevance filter, not the raw facts text.
C32_PromptFactsAreFiltered ==
    \A id \in JobIds :
        wk[id].prompt # None => wk[id].prompt[1].facts.kind = "filtered"


\* Chunks of the transcripts the extraction stage of job id reads.
ReadableChunks(id) ==
    Chunks({k \in wk[id].st[1].transcripts : TranscriptPath(SessionOf(id), k) \in files})
ExtractionSkips ==
    \A id \in JobIds :
        /\ (pc[id] = "extract" /\ pc'[id] = "extract_write") =>
              /\ wk'[id].exc = None
              /\ wk'[id].facts \cup wk'[id].skipped = ReadableChunks(id)
              /\ wk'[id].facts \cap wk'[id].skipped = {}
        /\ (pc[id] = "extract_write" /\ pc'[id] # pc[id]) =>
              /\ pc'[id] = "ws_check"
              /\ wk'[id].exc = None
              /\ wk'[id].facts = wk[id].facts
              /\ {FactsPath(SessionOf(id)), StatsPath(SessionOf(id))} \subseteq files'
              /\ wk'[id].st[1].context_extracted
              /\ cp'[SessionOf(id)] = Some(wk'[id].st[1])
ProviderFailureFails ==
    \A id \in JobIds :
        wk[id].exc = Some(MsgEmptyText) =>
            /\ pc[id] \in {"except", "done", "crashed"}
            /\ pc[id] # "except" => IsFailedWith(job[id][1], MsgEmptyText)
            /\ (pc[id] = "done" /\ store[id] # None) => store[id][1] = job[id][1]

\* C33: during extraction a chunk whose provider call fails, whose output is
\* not a list or whose items are all invalid is skipped and nothing else: the
\* stage keeps the other chunks' facts, writes its artifacts and returns
\* context_extracted = true, also when every chunk was skipped; a provider
\* failure during section generation or refinement fails the job.
C33_ExtractionSkipsGenerationFails ==
    [][ExtractionSkips /\ ProviderFailureFails']_vars
C33_Witness ==
    \E id, other \in JobIds :
        /\ pc[id] = "ws_check"
        /\ wk[id].facts # {}
        /\ wk[id].skipped # {}
        /\ wk[id].st[1].context_extracted
        /\ {FactsPath("s1"), StatsPath("s1")} \subseteq files
        /\ pc[other] = "done"
        /\ wk[other].exc = Some(MsgEmptyText)
        /\ store[other] # None
        /\ IsFailedWith(store[other][1], MsgEmptyText)


\* C34: _dedupe_merge does not mutate its inputs: after the call every fact
\* object of existing and new holds what it held before the call.
C34_MergeLeavesInputs ==
    mstep = 1 => \A i \in 1..Len(heap0) : heap[i] = heap0[i]


\* C35: cleanup_old_jobs(max_age) on the in-memory backend removes exactly the
\* jobs whose updated_at is more than max_age in the past, whatever their
\* status, returns the number removed and leaves every other job unchanged.
C35_CleanupRemovesOld ==
    [][(ret'.op = "cleanup" /\ ret' # ret) =>
         LET old == {id \in JobIds :
                       /\ store[id] # None
                       /\ clock - store[id][1].updated_at > ret'.max_age_seconds}
         IN /\ \A id \in old : store'[id] = None
            /\ \A id \in JobIds \ old : store'[id] = store[id]
            /\ ret'.removed = Cardinality(old)]_vars
C35_Witness ==
    /\ ret.op = "cleanup"
    /\ ret.at = clock
    /\ ret.removed = 1
    /\ nJobs = 2
    /\ \E id \in JobIds :
         /\ store[id] # None
         /\ store[id][1].status = PROCESSING
         /\ clock - store[id][1].updated_at = ret.max_age_seconds


\* C36: each accepted submission creates exactly one job and starts exactly
\* one handler, of the type of the job; no handler is ever started for a job
\* id that existed before, and a job's handler is started once.
Matches(handler, job_type) ==
    \/ handler = "job_generate" /\ job_type = JOB_TYPE_GENERATE
    \/ handler = "job_refine" /\ job_type = JOB_TYPE_REFINE
SubmissionStartsOne ==
    \A id \in JobIds :
        wk'[id].handler # wk[id].handler =>
            /\ wk[id].handler = "none"
            /\ id = nJobs + 1
            /\ nJobs' = id
            /\ store[id] = None /\ job[id] = None /\ pc[id] = "none"
            /\ pc'[id] = "queued"
            /\ store'[id] # None
            /\ store'[id][1].status = PENDING
            /\ Matches(wk'[id].handler, store'[id][1].job_type)
            /\ \A other \in JobIds \ {id} :
                  /\ store'[other] = store[other]
                  /\ wk'[other] = wk[other]
                  /\ pc'[other] = pc[other]
HandlerRunsItsJob ==
    \A id \in JobIds :
        /\ pc[id] = "queued" <=> (wk[id].handler # "none" /\ job[id] = None
                                   /\ pc[id] \notin {"skipped", "crashed_get"})
        /\ pc[id] \in {"none", "rejected"} => wk[id].handler = "none"
        /\ pc[id] \in WorkPcs =>
              /\ Matches(wk[id].handler, job[id][1].job_type)
              /\ (pc[id] \in {"rf_load", "rf_llm"}) = (wk[id].handler = "job_refine")
C36_OneJobOneHandler == [][SubmissionStartsOne /\ HandlerRunsItsJob']_vars
C36_Witness ==
    /\ nJobs = 2
    /\ wk[1].handler = "job_refine"
    /\ wk[2].handler = "job_generate"
    /\ pc[1] = "rf_load"
    /\ pc[2] = "queued"
    /\ store[2] # None
    /\ store[2][1].job_type = JOB_TYPE_GENERATE


\* C37: while a job's work is blocked in the worker thread a status query is
\* still served, for that job with the stored status (PROCESSING while the
\* record is there); accepting a submission and serving a status query make
\* no provider call and no storage fetch, and touch no session or file.
Working(id) == pc[id] \in WorkPcs
QueryServedDuringWork ==
    \A id \in JobIds :
        Working(id) =>
            /\ polls < MaxPolls => \A q \in JobIds : ENABLED Poll(q)
            /\ LET resp == GetJobStatus(store, id, "ok")
               IN IF store[id] = None
                  THEN resp.http = 404
                  ELSE /\ resp.http = 200
                       /\ resp.job_status = Some(store[id][1].status)
                       /\ resp.job_status = Some(PROCESSING)
                       /\ resp.status = "processing"
AcceptingPathIsLight ==
    (nJobs' # nJobs \/ polls' # polls) =>
        /\ calls' = calls
        /\ cp' = cp
        /\ files' = files
        /\ \A id \in JobIds : Working(id) => pc'[id] = pc[id] /\ wk'[id] = wk[id]
C37_StatusServedDuringWork == [][QueryServedDuringWork /\ AcceptingPathIsLight]_vars
C37_Witness ==
    /\ polls = 1
    /\ nJobs = 2
    /\ pc[1] = "ws_run"
    /\ pc[2] = "queued"
    /\ calls[1].json > 0
    /\ store[1] # None
    /\ store[1][1].status = PROCESSING


\* C38: nothing serialises the pipeline per session: two GENERATE jobs of one
\* session can both be inside the loading stage (a job can enter it and go on
\* in it while another is inside), and each that extracts a document adds an
\* entry of its own for it, beside the entry another job wrote for the same
\* document.
InsideLoading(id) == pc[id] = "load_write"
LoadingNotSerialised ==
    \A a, b \in JobIds :
        (a # b /\ InsideLoading(a) /\ pc[b] \in {"load", "load_write"}
            /\ SessionOf(a) = SessionOf(b)) =>
            /\ pc[b] = "load" => ENABLED LoadTranscripts(b)
            /\ pc[b] = "load_write" => ENABLED LoadWrite(b)
EachAddsItsEntry ==
    \A id \in JobIds :
        (InsideLoading(id) /\ pc'[id] = "extract") =>
            LET before == {k \in TranscriptKeys : TranscriptPath(SessionOf(id), k) \in files}
                after == {k \in TranscriptKeys : TranscriptPath(SessionOf(id), k) \in files'}
            IN /\ before \subseteq after
               /\ wk'[id].st[1].transcripts = after \ before
               /\ wk'[id].st[1].failures \/ wk[id].blobs = <<>>
                     \/ Cardinality(after \ before) = Len(wk[id].blobs)
C38_LoadingNotSerialised == [][LoadingNotSerialised /\ EachAddsItsEntry]_vars
C38_Witness ==
    /\ JobTypeOf(1) = JOB_TYPE_GENERATE
    /\ JobTypeOf(2) = JOB_TYPE_GENERATE
    /\ pc[1] = "extract"
    /\ pc[2] = "extract"
    /\ calls[1].fetch = 1
    /\ calls[2].fetch = 1
    /\ wk[1].st[1].transcripts = {<<"call", 2>>}
    /\ wk[2].st[1].transcripts = {<<"call", 1>>}
    /\ {TranscriptPath("s1", <<"call", 1>>), TranscriptPath("s1", <<"call", 2>>)}
           \subseteq files


\* C39: once a job's record was deleted (delete_job returned true) it is absent
\* from the store in every later state, on either backend, also when the
\* handler that loaded the job before the deletion persists a status with
\* update_job afterwards.
Removed(id) == id \in Created /\ pc[id] # "rejected" /\ store[id] = None
C39_RemovedStaysAbsent ==
    [][\A id \in JobIds : Removed(id) => GetJob(store', id) = None]_vars


\* C40: the output of _dedupe_merge holds at most one fact per (type,
\* normalised value) key, holds a fact for every key with a non-empty
\* normalised value among its inputs, and the fact kept for a key has the
\* highest confidence among the input facts with that key.
InputFacts == {heap0[existing[i]] : i \in 1..Len(existing)}
                  \cup {heap0[new[i]] : i \in 1..Len(new)}
NotBelow(c1, c2) ==
    \/ c1 = "HIGH"
    \/ c1 = "MEDIUM" /\ c2 \in {"LOW", "MEDIUM"}
    \/ c1 = "LOW" /\ c2 = "LOW"
C40_OnePerKeyHighestKept ==
    mstep >= 1 =>
        LET out == merged1.facts
        IN /\ \A i, j \in 1..Len(out) : FactKey(out[i]) = FactKey(out[j]) => i = j
           /\ \A f \in InputFacts :
                 Words(f.value) # <<>> =>
                     \E i \in 1..Len(out) : FactKey(out[i]) = FactKey(f)
           /\ \A i \in 1..Len(out) :
                 /\ \E f \in InputFacts :
                       FactKey(f) = FactKey(out[i]) /\ f.confidence = out[i].confidence
                 /\ \A f \in InputFacts :
                       FactKey(f) = FactKey(out[i]) =>
                           NotBelow(out[i].confidence, f.confidence)
C40_Witness ==
    /\ mstep >= 1
    /\ Len(existing) = 1
    /\ Len(new) = 1
    /\ FactKey(heap0[1]) = FactKey(heap0[2])
    /\ heap0[1].value # heap0[2].value
    /\ heap0[1].confidence = "LOW"
    /\ heap0[2].confidence = "HIGH"
    /\ Len(merged1.facts) = 1
    /\ merged1.facts[1].confidence = "HIGH"

====
